---- MODULE Spec2Model ----
(***************************************************************************)
(* Memory subsystem of Agent-LuoTianyi.                                    *)
(*                                                                         *)
(*  - ConversationManager (src/src/agent/conversation_manager.py): the     *)
(*    sharded conversation log with its index, the in-memory recent        *)
(*    window, the context buffer and the background compaction thread.     *)
(*  - MemoryManager (src/src/memory/memory_manager.py): the foreground     *)
(*    search and the background post-process write thread.                 *)
(*                                                                         *)
(* One foreground thread issues the public calls one after the other; the  *)
(* threads the code starts (threading.Thread) run concurrently with it and *)
(* with each other, one step at a time.                                    *)
(***************************************************************************)
EXTENDS Integers, Sequences, FiniteSets, TLC

\* ---------------------------------------------------------------- bounds
MaxAppends == 3
MaxCrashes == 1
MaxFileLines == 2
MaxRecentLimit == 2
MaxRawLimit == 2
MaxNotZip == 2
MaxWrites == 3

\* ------------------------------------------------- program constants
DefaultRawLimit == 100
DefaultNotZip == 20

\* the callers alternate: the user's turn, then the agent's
\* (tests/test_conversation_manager.py appends the numbers 0, 1, 2, ... so)
SourceOf(n) == IF n % 2 = 1 THEN "user" ELSE "agent"

VARIABLES
    \* configuration read by __init__
    max_file_lines, recent_limit,
    raw_conversation_context_limit, not_zip_conversation_count,
    \* ConversationManager fields
    index_data, recent_history, context, summary, update_context_thread,
    \* persisted files
    index_file, shard_files, context_file,
    \* the compaction threads ever started, by start order
    threads,
    \* the foreground thread: where it is, and the locals of the running call
    pc, item, waited,
    \* what the last get_context / get_history call returned
    last_context, last_history,
    \* history: the items add_conversation was called with, the restarts, and
    \* whether context.json was written from a mixed summary/context pair
    appended, crashes, file_mixed,
    \* MemoryManager: the field, the write threads ever started, where the
    \* foreground call is
    post_process_thread, write_threads, mm_pc,
    \* the memory components, each a record of its fields and of the locals
    \* of its running call: the plan parser, MemorySearcher.search,
    \* MemoryWriter.process_interaction, get_aliased_name, find_path
    plan, searcher, writer, resolver, finder,
    \* the vector store, the knowledge graph, and the files read at start-up
    vstore, kg, loader,
    \* the agent's turn handler and the LanguageModel client
    agent, llm

cfg_vars == <<max_file_lines, recent_limit,
              raw_conversation_context_limit, not_zip_conversation_count>>
mem_vars == <<index_data, recent_history, context, summary, update_context_thread>>
disk_vars == <<index_file, shard_files, context_file>>
fg_vars == <<pc, item, waited>>
obs_vars == <<last_context, last_history>>
hist_vars == <<appended, crashes, file_mixed>>
mm_vars == <<post_process_thread, write_threads, mm_pc>>
late_vars == <<agent, llm>>
more_vars == <<vstore, kg, loader, late_vars>>
ext_vars == <<plan, searcher, writer, resolver, finder, more_vars>>
cm_vars == <<cfg_vars, mem_vars, disk_vars, threads, fg_vars, obs_vars, hist_vars, mm_vars>>
vars == <<cm_vars, ext_vars>>

\* ---------------------------------------------------------------- helpers
Min(a, b) == IF a < b THEN a ELSE b
Max(a, b) == IF a > b THEN a ELSE b

\* Python s[a:b] for 0 <= a, 0 <= b (0-based, end exclusive, clamped)
Slice(s, a, b) == SubSeq(s, a + 1, Min(b, Len(s)))

\* Python s[-n:] for n >= 0: s[-0:] is s[0:], the whole list
LastItems(s, n) == IF n = 0 THEN s ELSE SubSeq(s, Max(1, Len(s) - n + 1), Len(s))

\* ---------------------------------------------------------- serialisation
\* json.dumps(asdict(item)) + "\n": one line of a shard file
ItemToLine(it) == [valid |-> TRUE, json |-> <<it.source, it.content>>]

\* json.loads(line) and ConversationItem(**data); an undecodable line gives nothing
LineToItems(line) ==
    IF line.valid
    THEN <<[source |-> line.json[1], content |-> line.json[2]]>>
    ELSE <<>>

\* ---------------------------------------------------------------- the index
EmptyIndex == [total_count |-> 0, files |-> <<>>]

\* a JSON file on disk: missing, unreadable (a torn write), or holding data
FileOf(d) == [state |-> "ok", data |-> d]
MissingFile(d) == [state |-> "missing", data |-> d]
TornFile(f) == [f EXCEPT !.state = "corrupt"]

\* _load_index: the parsed file, or the default when it is missing or unreadable
LoadIndex(file) == IF file.state = "ok" THEN file.data ELSE EmptyIndex

\* (a bug the shard-count claim must catch: rotation one record too late)
GetCurrentFileInfo_late(idx) ==
    IF idx.files = <<>>
    THEN [idx EXCEPT !.files =
            <<[filename |-> 0, count |-> 0, start_index |-> 0, end_index |-> 0]>>]
    ELSE IF idx.files[Len(idx.files)].count > max_file_lines
         THEN [idx EXCEPT !.files = Append(@,
                 [filename |-> Len(idx.files), count |-> 0,
                  start_index |-> idx.total_count, end_index |-> idx.total_count])]
         ELSE idx

\* _get_current_file_info: the index after the call; the entry it returns is
\* the last one of files
GetCurrentFileInfo(idx) ==
    IF idx.files = <<>>
    THEN [idx EXCEPT !.files =
            <<[filename |-> 0, count |-> 0, start_index |-> 0, end_index |-> 0]>>]
    ELSE IF idx.files[Len(idx.files)].count >= max_file_lines
         THEN [idx EXCEPT !.files = Append(@,
                 [filename |-> Len(idx.files), count |-> 0,
                  start_index |-> idx.total_count, end_index |-> idx.total_count])]
         ELSE idx

\* (a bug the index-never-ahead claim must catch: the line is not on disk yet
\* when the index is saved)
AppendLine_unflushed(files, filename, line) ==
    IF filename + 1 <= Len(files) THEN files ELSE Append(files, <<>>)

\* open(file_path, 'a') and write: the file is created when it does not exist
AppendLine(files, filename, line) ==
    IF filename + 1 <= Len(files)
    THEN [files EXCEPT ![filename + 1] = Append(@, line)]
    ELSE Append(files, <<line>>)

\* (a bug the only-the-last-shard claim must catch: the record is counted in
\* the first entry of the index)
CountAppend_first(idx) ==
    [idx EXCEPT !.files[1].count = @ + 1,
                !.files[1].end_index = @ + 1,
                !.total_count = @ + 1]

\* add_conversation step 3: the counters of the returned entry and the total
CountAppend(idx) ==
    LET n == Len(idx.files) IN
    [idx EXCEPT !.files[n].count = @ + 1,
                !.files[n].end_index = @ + 1,
                !.total_count = @ + 1]

\* _read_lines_from_file: skip lines, then up to count lines, decoded
RECURSIVE DecodeLines(_)
DecodeLines(lines) ==
    IF lines = <<>> THEN <<>>
    ELSE LineToItems(Head(lines)) \o DecodeLines(Tail(lines))

\* (a bug the range-read claim must catch: the offset inside the shard is ignored)
ReadLinesFromFile_noSkip(files, filename, skip, count) ==
    IF filename + 1 > Len(files) THEN <<>>
    ELSE DecodeLines(Slice(files[filename + 1], 0, count))

ReadLinesFromFile(files, filename, skip, count) ==
    IF filename + 1 > Len(files) THEN <<>>
    ELSE DecodeLines(Slice(files[filename + 1], skip, skip + count))

\* get_history: the loop over the index entries, from entry i on
RECURSIVE ReadShards(_, _, _, _, _)
ReadShards(idx, files, start, end, i) ==
    IF i > Len(idx.files) THEN <<>>
    ELSE LET fi == idx.files[i]
             here == IF start < fi.end_index /\ end > fi.start_index
                     THEN LET read_start == Max(start, fi.start_index)
                              read_end == Min(end, fi.end_index)
                          IN ReadLinesFromFile(files, fi.filename,
                                 read_start - fi.start_index, read_end - read_start)
                     ELSE <<>>
         IN here \o ReadShards(idx, files, start, end, i + 1)

\* get_history: is the clamped range served from the recent window
InRecentWindow(idx, recent, start) == start >= idx.total_count - Len(recent)

GetHistory(idx, recent, files, start0, end0) ==
    LET total == idx.total_count
        start == IF start0 < 0 THEN 0 ELSE start0
        end == IF end0 > total THEN total ELSE end0
        cache_start_idx == total - Len(recent)
    IN IF start >= end THEN <<>>
       ELSE IF InRecentWindow(idx, recent, start)
            THEN Slice(recent, start - cache_start_idx, end - cache_start_idx)
            ELSE ReadShards(idx, files, start, end, 1)

\* (a bug the recent-window claim must catch: the newest item is evicted)
PushRecent_newest(recent, it) ==
    IF Len(recent) >= recent_limit THEN recent ELSE Append(recent, it)

\* add_conversation step 4: the recent window after the append
PushRecent(recent, it) ==
    LET r == Append(recent, it) IN
    IF Len(r) > recent_limit THEN Tail(r) ELSE r

\* _load_recent_history, with the window still empty
LoadRecentHistory(idx, files) ==
    IF idx.total_count = 0 THEN <<>>
    ELSE GetHistory(idx, <<>>, files, Max(0, idx.total_count - recent_limit), idx.total_count)

\* ---------------------------------------------------------------- context
NoSummary == [text |-> 0, ws |-> FALSE]

\* str.strip(): the text without surrounding whitespace
Strip(s) == [s EXCEPT !.ws = FALSE]

\* _save_context: what is written to context.json
SavedContext == FileOf([summary |-> summary, context |-> context])

\* _load_context
EmptyContext == [summary |-> NoSummary, context |-> <<>>]
LoadContext(file) == IF file.state = "ok" THEN file.data ELSE EmptyContext

\* (a bug the one-compaction claim must catch: compaction one append early)
OverLimit_atLimit(ctx) == Len(ctx) >= raw_conversation_context_limit

\* add_conversation: does the append trigger a compaction
OverLimit(ctx) == Len(ctx) > raw_conversation_context_limit

\* Thread.is_alive()
IsAlive(t) == threads[t].pc \notin {"done", "failed", "killed"}
Alive == {t \in 1..Len(threads) : IsAlive(t)}

\* the summary in memory belongs to a compaction that has not truncated yet
Mixed ==
    IF summary.text = 0 THEN FALSE
    ELSE threads[summary.text].pc \notin {"save", "done", "killed"}

NoContext == [called |-> FALSE, waited |-> 0, summary |-> NoSummary,
              context |-> <<>>, alive |-> {}, mixed |-> FALSE]
NoHistory == [called |-> FALSE, start |-> 0, end |-> 0, result |-> <<>>]
NoItem == [source |-> "user", content |-> 0]

\* ------------------------------------------------ ConversationManager.__init__
InitWith(Ms, Rs, Ls, NZs) ==
    /\ max_file_lines \in Ms
    /\ recent_limit \in Rs
    /\ raw_conversation_context_limit \in Ls
    /\ not_zip_conversation_count \in NZs
    /\ index_data = EmptyIndex
    /\ recent_history = <<>>
    /\ context = <<>>
    /\ summary = NoSummary
    /\ update_context_thread = 0
    /\ index_file = MissingFile(EmptyIndex)
    /\ shard_files = <<>>
    /\ context_file = MissingFile(EmptyContext)
    /\ threads = <<>>
    /\ pc = "idle"
    /\ item = NoItem
    /\ waited = 0
    /\ last_context = NoContext
    /\ last_history = NoHistory
    /\ appended = <<>>
    /\ crashes = 0
    /\ file_mixed = FALSE
    /\ post_process_thread = 0
    /\ write_threads = <<>>
    /\ mm_pc = "idle"

\* a memory component that has not been constructed
Off == [pc |-> "off"]

\* the vector store, the knowledge graph and the loader are not in use
MoreIdle ==
    /\ vstore = Off
    /\ kg = Off
    /\ loader = Off
    /\ agent = Off
    /\ llm = Off

\* none of the memory components is in use
ExtIdle ==
    /\ plan = Off
    /\ searcher = Off
    /\ writer = Off
    /\ resolver = Off
    /\ finder = Off
    /\ MoreIdle

\* the conversation manager and the memory manager freshly constructed
CmIdle == InitWith({MaxFileLines}, {MaxRecentLimit}, {DefaultRawLimit}, {DefaultNotZip})

\* ------------------------------------------------------------ add_conversation
\* lines 99-113: build the item, find the shard, append the line to its file
AC_WriteLineUpTo(max) ==
    /\ pc = "idle"
    /\ Len(appended) < max
    /\ LET it == [source |-> SourceOf(Len(appended) + 1), content |-> Len(appended) + 1]
           idx == GetCurrentFileInfo(index_data)
       IN /\ item' = it
          /\ index_data' = idx
          /\ shard_files' = AppendLine(shard_files, idx.files[Len(idx.files)].filename,
                                       ItemToLine(it))
          /\ appended' = Append(appended, it)
    /\ pc' = "ac_written"
    /\ last_context' = NoContext
    /\ last_history' = NoHistory
    /\ UNCHANGED <<ext_vars, cfg_vars, recent_history, context, summary, update_context_thread,
                   index_file, context_file, threads, waited, crashes, file_mixed, mm_vars>>

AC_WriteLine == AC_WriteLineUpTo(MaxAppends)

\* lines 116-119: count the record and save the index
AC_SaveIndex ==
    /\ pc = "ac_written"
    /\ index_data' = CountAppend(index_data)
    /\ index_file' = FileOf(index_data')
    /\ pc' = "ac_indexed"
    /\ UNCHANGED <<ext_vars, cfg_vars, recent_history, context, summary, update_context_thread,
                   shard_files, context_file, threads, item, waited, obs_vars,
                   hist_vars, mm_vars>>

\* lines 122-126: the recent window and the context buffer
AC_Append ==
    /\ pc = "ac_indexed"
    /\ recent_history' = PushRecent(recent_history, item)
    /\ context' = Append(context, item)
    /\ pc' = "ac_check"
    /\ UNCHANGED <<ext_vars, cfg_vars, index_data, summary, update_context_thread, disk_vars,
                   threads, item, waited, obs_vars, hist_vars, mm_vars>>

\* (a bug the never-waits claim must catch: the append joins the running
\* compactions before it returns)
AC_Check_joining ==
    /\ pc = "ac_check"
    /\ \A t \in 1..Len(threads) : ~IsAlive(t)
    /\ IF OverLimit(context)
       THEN /\ threads' = Append(threads, [pc |-> "start", seen |-> <<>>])
            /\ update_context_thread' = Len(threads) + 1
            /\ UNCHANGED <<context_file, file_mixed>>
       ELSE /\ context_file' = SavedContext
            /\ file_mixed' = Mixed
            /\ UNCHANGED <<threads, update_context_thread>>
    /\ pc' = "idle"
    /\ UNCHANGED <<ext_vars, cfg_vars, index_data, recent_history, context, summary,
                   index_file, shard_files, item, waited, obs_vars, appended, crashes,
                   mm_vars>>

\* lines 127-133: start a compaction thread, or save the context, and return
AC_Check ==
    /\ pc = "ac_check"
    /\ IF OverLimit(context)
       THEN /\ threads' = Append(threads, [pc |-> "start", seen |-> <<>>])
            /\ update_context_thread' = Len(threads) + 1
            /\ UNCHANGED <<context_file, file_mixed>>
       ELSE /\ context_file' = SavedContext
            /\ file_mixed' = Mixed
            /\ UNCHANGED <<threads, update_context_thread>>
    /\ pc' = "idle"
    /\ UNCHANGED <<ext_vars, cfg_vars, index_data, recent_history, context, summary,
                   index_file, shard_files, item, waited, obs_vars, appended, crashes,
                   mm_vars>>

\* ------------------------------------------------------------- _update_context
\* lines 299-303: the arguments are read and the LanguageModel is called
UC_CallLLM(t) ==
    /\ threads[t].pc = "start"
    /\ threads' = [threads EXCEPT ![t] = [pc |-> "llm", seen |-> context]]
    /\ UNCHANGED <<ext_vars, cfg_vars, mem_vars, disk_vars, fg_vars, obs_vars, hist_vars, mm_vars>>

\* lines 304-305: the LanguageModel answers; summary = new_summary.strip()
UC_SetSummary(t, ws) ==
    /\ threads[t].pc = "llm"
    /\ summary' = Strip([text |-> t, ws |-> ws])
    /\ threads' = [threads EXCEPT ![t].pc = "truncate"]
    /\ UNCHANGED <<ext_vars, cfg_vars, index_data, recent_history, context, update_context_thread,
                   disk_vars, fg_vars, obs_vars, hist_vars, mm_vars>>

\* a failure path that stores a partial summary before the exception ends the thread
UC_LLMFails_partial(t) ==
    /\ threads[t].pc = "llm"
    /\ threads' = [threads EXCEPT ![t].pc = "failed"]
    /\ summary' = Strip([text |-> t, ws |-> FALSE])
    /\ UNCHANGED <<ext_vars, cfg_vars, index_data, recent_history, context, update_context_thread,
                   disk_vars, fg_vars, obs_vars, hist_vars, mm_vars>>

\* line 299: generate_response raises; the thread ends with the exception
UC_LLMFails(t) ==
    /\ threads[t].pc = "llm"
    /\ threads' = [threads EXCEPT ![t].pc = "failed"]
    /\ UNCHANGED <<ext_vars, cfg_vars, mem_vars, disk_vars, fg_vars, obs_vars, hist_vars, mm_vars>>

\* line 306: context = context[-not_zip_conversation_count:]
UC_Truncate(t) ==
    /\ threads[t].pc = "truncate"
    /\ context' = LastItems(context, not_zip_conversation_count)
    /\ threads' = [threads EXCEPT ![t].pc = "save"]
    /\ UNCHANGED <<ext_vars, cfg_vars, index_data, recent_history, summary, update_context_thread,
                   disk_vars, fg_vars, obs_vars, hist_vars, mm_vars>>

\* line 307: _save_context()
UC_Save(t) ==
    /\ threads[t].pc = "save"
    /\ context_file' = SavedContext
    /\ file_mixed' = Mixed
    /\ threads' = [threads EXCEPT ![t].pc = "done"]
    /\ UNCHANGED <<ext_vars, cfg_vars, mem_vars, index_file, shard_files, fg_vars, obs_vars,
                   appended, crashes, mm_vars>>

\* ----------------------------------------------------------------- get_context
\* line 199: is the thread of update_context_thread alive
GC_Begin ==
    /\ pc = "idle"
    /\ waited' = IF update_context_thread # 0 /\ IsAlive(update_context_thread)
                 THEN update_context_thread ELSE 0
    /\ pc' = "gc_join"
    /\ last_context' = NoContext
    /\ last_history' = NoHistory
    /\ UNCHANGED <<ext_vars, cfg_vars, mem_vars, disk_vars, threads, item, hist_vars, mm_vars>>

\* lines 200-202: join() returns once that thread has ended; build the text
GC_Return ==
    /\ pc = "gc_join"
    /\ IF waited = 0 THEN TRUE ELSE ~IsAlive(waited)
    /\ last_context' = [called |-> TRUE, waited |-> waited, summary |-> summary,
                        context |-> context, alive |-> Alive, mixed |-> Mixed]
    /\ pc' = "idle"
    /\ waited' = 0
    /\ UNCHANGED <<ext_vars, cfg_vars, mem_vars, disk_vars, threads, item, last_history,
                   hist_vars, mm_vars>>

\* ----------------------------------------------------------------- get_history
GH_Call(a, b) ==
    /\ pc = "idle"
    /\ last_history' = [called |-> TRUE, start |-> a, end |-> b,
                        result |-> GetHistory(index_data, recent_history, shard_files, a, b)]
    /\ last_context' = NoContext
    /\ UNCHANGED <<ext_vars, cfg_vars, mem_vars, disk_vars, threads, fg_vars, hist_vars, mm_vars>>

\* --------------------------------------------------------- get_nearset_history
\* (a bug the nearest-items claim must catch: one item too many is asked for)
NearestStart_early(total, n) == Max(0, total - n - 1)

\* line 140: start = max(0, total_cnt - n)
NearestStart(total, n) == Max(0, total - n)

\* lines 135-141; the call is recorded with its argument
GNH_Call(n) ==
    /\ pc = "idle"
    /\ last_history' =
          [called |-> TRUE,
           start |-> NearestStart(index_data.total_count, n),
           end |-> index_data.total_count,
           result |-> GetHistory(index_data, recent_history, shard_files,
                                 NearestStart(index_data.total_count, n),
                                 index_data.total_count),
           n |-> n]
    /\ last_context' = NoContext
    /\ UNCHANGED <<ext_vars, cfg_vars, mem_vars, disk_vars, threads, fg_vars, hist_vars, mm_vars>>

\* --------------------------------------------------- process killed, __init__
\* The process dies at any point of the foreground call (a save of index.json
\* that was under way leaves an unreadable file when torn); the daemon threads
\* die with it; lines 67-93 then rebuild the object from the files.
CrashRestart(torn) ==
    /\ crashes < MaxCrashes
    /\ pc \in {"idle", "ac_written", "ac_indexed", "ac_check"}
    /\ crashes' = crashes + 1
    /\ index_file' = IF torn /\ pc = "ac_written" THEN TornFile(index_file) ELSE index_file
    /\ index_data' = LoadIndex(index_file')
    /\ recent_history' = LoadRecentHistory(index_data', shard_files)
    /\ context' = LoadContext(context_file).context
    /\ summary' = LoadContext(context_file).summary
    /\ update_context_thread' = 0
    /\ threads' = [t \in 1..Len(threads) |->
                     IF IsAlive(t) THEN [threads[t] EXCEPT !.pc = "killed"] ELSE threads[t]]
    /\ pc' = "idle"
    /\ item' = NoItem
    /\ waited' = 0
    /\ last_context' = NoContext
    /\ last_history' = NoHistory
    /\ UNCHANGED <<ext_vars, cfg_vars, shard_files, context_file, appended, file_mixed, mm_vars>>

\* --------------------------------------------------------------- MemoryManager
\* Thread.is_alive() of a write thread
WriteAlive(t) == write_threads[t] \notin {"done", "failed"}
WritesAlive == {t \in 1..Len(write_threads) : WriteAlive(t)}

\* get_knowledge line 54: is the thread of post_process_thread alive
GK_Begin ==
    /\ mm_pc = "idle"
    /\ mm_pc' = "gk_join"
    /\ UNCHANGED <<ext_vars, cfg_vars, mem_vars, disk_vars, threads, fg_vars, obs_vars, hist_vars,
                   post_process_thread, write_threads>>

\* lines 54-58: join() that thread when it is alive, then start the search
GK_Search ==
    /\ mm_pc = "gk_join"
    /\ IF post_process_thread = 0 THEN TRUE ELSE ~WriteAlive(post_process_thread)
    /\ mm_pc' = "searching"
    /\ UNCHANGED <<ext_vars, cfg_vars, mem_vars, disk_vars, threads, fg_vars, obs_vars, hist_vars,
                   post_process_thread, write_threads>>

\* line 58: memory_searcher.search returns
GK_Return ==
    /\ mm_pc = "searching"
    /\ mm_pc' = "idle"
    /\ UNCHANGED <<ext_vars, cfg_vars, mem_vars, disk_vars, threads, fg_vars, obs_vars, hist_vars,
                   post_process_thread, write_threads>>

\* post_process_interaction lines 68-70: a new thread is started and stored
PP_Call ==
    /\ mm_pc = "idle"
    /\ Len(write_threads) < MaxWrites
    /\ write_threads' = Append(write_threads, "extract")
    /\ post_process_thread' = Len(write_threads) + 1
    /\ UNCHANGED <<ext_vars, cfg_vars, mem_vars, disk_vars, threads, fg_vars, obs_vars, hist_vars, mm_pc>>

\* the write thread: MemoryWriter.process_interaction asks the LanguageModel
\* for the plan, then applies it, then ends
W_Extract(t) ==
    /\ write_threads[t] = "extract"
    /\ write_threads' = [write_threads EXCEPT ![t] = "apply"]
    /\ UNCHANGED <<ext_vars, cfg_vars, mem_vars, disk_vars, threads, fg_vars, obs_vars, hist_vars,
                   post_process_thread, mm_pc>>

W_Apply(t) ==
    /\ write_threads[t] = "apply"
    /\ write_threads' = [write_threads EXCEPT ![t] = "done"]
    /\ UNCHANGED <<ext_vars, cfg_vars, mem_vars, disk_vars, threads, fg_vars, obs_vars, hist_vars,
                   post_process_thread, mm_pc>>

\* an exception of the vector store (or of the code applying the plan) ends
\* the thread
W_Fails(t) ==
    /\ write_threads[t] = "apply"
    /\ write_threads' = [write_threads EXCEPT ![t] = "failed"]
    /\ UNCHANGED <<ext_vars, cfg_vars, mem_vars, disk_vars, threads, fg_vars, obs_vars, hist_vars,
                   post_process_thread, mm_pc>>

\* ------------------------------------------------------------- specifications
\* The context buffer and its compaction threads.
Init == InitWith({MaxFileLines}, {MaxRecentLimit}, 1..MaxRawLimit, 0..MaxNotZip) /\ ExtIdle

Next ==
    \/ AC_WriteLine
    \/ AC_SaveIndex
    \/ AC_Append
    \/ AC_Check
    \/ \E t \in 1..Len(threads) : UC_CallLLM(t)
    \/ \E t \in 1..Len(threads), ws \in BOOLEAN : UC_SetSummary(t, ws)
    \/ \E t \in 1..Len(threads) : UC_LLMFails(t)
    \/ \E t \in 1..Len(threads) : UC_Truncate(t)
    \/ \E t \in 1..Len(threads) : UC_Save(t)
    \/ GC_Begin
    \/ GC_Return

Spec == Init /\ [][Next]_vars

\* Appends racing with compactions: a context limit of one item and one item
\* kept raw, so that the second append starts a compaction and two more appends
\* can land while it runs.
RaceAppends == MaxAppends + 1

InitRace == InitWith({MaxFileLines}, {MaxRecentLimit}, {1}, {1}) /\ ExtIdle

NextRace ==
    \/ AC_WriteLineUpTo(RaceAppends)
    \/ AC_SaveIndex
    \/ AC_Append
    \/ AC_Check
    \/ \E t \in 1..Len(threads) : UC_CallLLM(t)
    \/ \E t \in 1..Len(threads), ws \in BOOLEAN : UC_SetSummary(t, ws)
    \/ \E t \in 1..Len(threads) : UC_LLMFails(t)
    \/ \E t \in 1..Len(threads) : UC_Truncate(t)
    \/ \E t \in 1..Len(threads) : UC_Save(t)

SpecRace == InitRace /\ [][NextRace]_vars

\* The foreground thread keeps running: a step of add_conversation that can be
\* taken is taken. Nothing is assumed of the compaction threads: the
\* LanguageModel may take for ever to answer.
SpecFair ==
    /\ Spec
    /\ WF_vars(AC_SaveIndex)
    /\ WF_vars(AC_Append)
    /\ WF_vars(AC_Check)

\* The sharded log, its index and the recent window, with the default context
\* limits (no compaction within the bound on appends) and process restarts.
InitLog ==
    InitWith(1..MaxFileLines, 0..MaxRecentLimit, {DefaultRawLimit}, {DefaultNotZip}) /\ ExtIdle

NextLog ==
    \/ AC_WriteLine
    \/ AC_SaveIndex
    \/ AC_Append
    \/ AC_Check
    \/ \E a \in -1..(index_data.total_count + 1), b \in -1..(index_data.total_count + 1) :
          GH_Call(a, b)
    \/ \E n \in -1..(index_data.total_count + 1) : GNH_Call(n)
    \/ \E torn \in BOOLEAN : CrashRestart(torn)

SpecLog == InitLog /\ [][NextLog]_vars

\* ======================================================== damaged shard files
\* a line that is not JSON ("text"), and a line that is not UTF-8 ("bytes")
GarbledLine(kind) == [valid |-> FALSE, json |-> <<kind>>]
NotUtf8(line) == line = GarbledLine("bytes")

\* the position of the first line of f that is not UTF-8, 0 if there is none
FirstNotUtf8(f) ==
    IF \E k \in 1..Len(f) : NotUtf8(f[k])
    THEN CHOOSE k \in 1..Len(f) :
            NotUtf8(f[k]) /\ \A j \in 1..(k - 1) : ~NotUtf8(f[j])
    ELSE 0

\* (a line that is not JSON ends the reading of its file)
DecodeRead_untilBad(lines) ==
    IF \E k \in 1..Len(lines) : ~lines[k].valid
    THEN DecodeLines(SubSeq(lines, 1,
             (CHOOSE k \in 1..Len(lines) :
                 ~lines[k].valid /\ \A j \in 1..(k - 1) : lines[j].valid) - 1))
    ELSE DecodeLines(lines)

\* lines 321-329: a line json.loads or ConversationItem(**data) rejects is
\* passed over, the loop goes on
DecodeRead(lines) == DecodeLines(lines)

\* _read_lines_from_file, lines 309-335, with a file that may be damaged. The
\* text layer decodes the file a block at a time, so the UnicodeDecodeError of
\* a line that is not UTF-8 is raised when its block is read: the outer except
\* returns the items of the q lines read before that block, and q depends on
\* where the blocks begin.
ReadOutcomes(files, filename, skip, count) ==
    IF filename + 1 > Len(files) THEN {<<>>}
    ELSE LET f == files[filename + 1]
             p == FirstNotUtf8(f)
         IN IF p = 0 THEN {DecodeRead(Slice(f, skip, skip + count))}
            ELSE {DecodeRead(Slice(f, skip, Min(skip + count, q))) : q \in 0..(p - 1)}

\* get_history, lines 168-192: what each entry of the index contributes
RECURSIVE PartsFrom(_, _, _, _, _)
PartsFrom(idx, files, start, end, i) ==
    IF i > Len(idx.files) THEN {<<>>}
    ELSE LET fi == idx.files[i]
             here == IF start < fi.end_index /\ end > fi.start_index
                     THEN LET read_start == Max(start, fi.start_index)
                              read_end == Min(end, fi.end_index)
                          IN ReadOutcomes(files, fi.filename,
                                 read_start - fi.start_index, read_end - read_start)
                     ELSE {<<>>}
         IN {<<h>> \o t : h \in here, t \in PartsFrom(idx, files, start, end, i + 1)}

\* result.extend(file_items), entry after entry
RECURSIVE Extend(_)
Extend(parts) == IF parts = <<>> THEN <<>> ELSE Head(parts) \o Extend(Tail(parts))

\* lines 151-160: the range is empty, or lies in the recent window
NoFileRead(idx, recent, start, end) ==
    IF start >= end THEN TRUE ELSE InRecentWindow(idx, recent, start)

\* get_history, lines 143-192: the call is recorded with what each index entry
\* contributed, or as served from the recent window
GHD_Call(a, b) ==
    /\ pc = "idle"
    /\ LET total == index_data.total_count
           start == IF a < 0 THEN 0 ELSE a
           end == IF b > total THEN total ELSE b
       IN IF NoFileRead(index_data, recent_history, start, end)
          THEN last_history' =
                  [called |-> TRUE, start |-> a, end |-> b,
                   result |-> GetHistory(index_data, recent_history, shard_files, a, b),
                   from_files |-> FALSE, parts |-> <<>>]
          ELSE \E parts \in PartsFrom(index_data, shard_files, start, end, 1) :
                  last_history' =
                      [called |-> TRUE, start |-> a, end |-> b,
                       result |-> Extend(parts),
                       from_files |-> TRUE, parts |-> parts]
    /\ last_context' = NoContext
    /\ UNCHANGED <<ext_vars, cfg_vars, mem_vars, disk_vars, threads, fg_vars, hist_vars, mm_vars>>

\* a shard file is deleted (read as a file that does not exist: lines 312-313)
ShardDeleted(i) ==
    /\ pc = "idle"
    /\ shard_files[i] # <<>>
    /\ shard_files' = [shard_files EXCEPT ![i] = <<>>]
    /\ last_history' = NoHistory
    /\ UNCHANGED <<ext_vars, cfg_vars, mem_vars, index_file, context_file, threads, fg_vars,
                   last_context, hist_vars, mm_vars>>

\* a shard file loses its last line
ShardTruncated(i) ==
    /\ pc = "idle"
    /\ Len(shard_files[i]) >= 2
    /\ shard_files' = [shard_files EXCEPT ![i] = SubSeq(@, 1, Len(@) - 1)]
    /\ last_history' = NoHistory
    /\ UNCHANGED <<ext_vars, cfg_vars, mem_vars, index_file, context_file, threads, fg_vars,
                   last_context, hist_vars, mm_vars>>

\* a line of a shard file is overwritten with something that is not a record
LineGarbled(i, k, kind) ==
    /\ pc = "idle"
    /\ k \in 1..Len(shard_files[i])
    /\ shard_files[i][k].valid
    /\ shard_files' = [shard_files EXCEPT ![i][k] = GarbledLine(kind)]
    /\ last_history' = NoHistory
    /\ UNCHANGED <<ext_vars, cfg_vars, mem_vars, index_file, context_file, threads, fg_vars,
                   last_context, hist_vars, mm_vars>>

NextShards ==
    \/ AC_WriteLine
    \/ AC_SaveIndex
    \/ AC_Append
    \/ AC_Check
    \/ \E i \in 1..Len(shard_files) : ShardDeleted(i)
    \/ \E i \in 1..Len(shard_files) : ShardTruncated(i)
    \/ \E i \in 1..Len(shard_files), k \in 1..MaxFileLines, kind \in {"text", "bytes"} :
          LineGarbled(i, k, kind)
    \/ \E a \in 0..index_data.total_count, b \in 0..index_data.total_count :
          GHD_Call(a, b)

SpecShards == InitLog /\ [][NextShards]_vars

\* The MemoryManager: searches of the foreground thread and write threads.
InitMem == InitWith({MaxFileLines}, {MaxRecentLimit}, {DefaultRawLimit}, {DefaultNotZip}) /\ ExtIdle

NextMem ==
    \/ GK_Begin
    \/ GK_Search
    \/ GK_Return
    \/ PP_Call
    \/ \E t \in 1..Len(write_threads) : W_Extract(t)
    \/ \E t \in 1..Len(write_threads) : W_Apply(t)
    \/ \E t \in 1..Len(write_threads) : W_Fails(t)

SpecMem == InitMem /\ [][NextMem]_vars

\* =============================================================== plan parsing
\* A string is a sequence of symbols: a punctuation character, a blank, or an
\* identifier taken whole (the parser never looks inside an identifier).

\* str.startswith(p)
StartsWith(s, p) == Len(s) >= Len(p) /\ SubSeq(s, 1, Len(p)) = p

\* c in s
Contains(s, c) == \E i \in 1..Len(s) : s[i] = c

\* position of the first c in s, 0 when there is none
FirstIndex(s, c) ==
    IF Contains(s, c) THEN CHOOSE i \in 1..Len(s) : s[i] = c /\ \A j \in 1..(i - 1) : s[j] # c
    ELSE 0

\* s.split(c, 1): one part when c does not occur, two parts otherwise
SplitFirst(s, c) ==
    IF FirstIndex(s, c) = 0 THEN <<s>>
    ELSE <<SubSeq(s, 1, FirstIndex(s, c) - 1), SubSeq(s, FirstIndex(s, c) + 1, Len(s))>>

\* s.split(c): every part, at least one
RECURSIVE SplitAll(_, _)
SplitAll(s, c) ==
    IF FirstIndex(s, c) = 0 THEN <<s>>
    ELSE <<SubSeq(s, 1, FirstIndex(s, c) - 1)>>
             \o SplitAll(SubSeq(s, FirstIndex(s, c) + 1, Len(s)), c)

\* s.rstrip(chars)
RECURSIVE RStripChars(_, _)
RStripChars(s, cs) ==
    IF s # <<>> /\ s[Len(s)] \in cs THEN RStripChars(SubSeq(s, 1, Len(s) - 1), cs) ELSE s

\* s.lstrip(chars)
RECURSIVE LStripChars(_, _)
LStripChars(s, cs) ==
    IF s # <<>> /\ s[1] \in cs THEN LStripChars(Tail(s), cs) ELSE s

\* s.strip(chars); s.strip() strips blanks
StripChars(s, cs) == LStripChars(RStripChars(s, cs), cs)
Blank == {" "}

\* an empty dict, and d[key] = value
EmptyDict == [k \in {} |-> <<>>]
DictSet(d, key, value) == [k \in DOMAIN d \cup {key} |-> IF k = key THEN value ELSE d[k]]

\* dict.get(key, "")
DictGet(d, key) == IF key \in DOMAIN d THEN d[key] ELSE <<>>

\* lines 91-93: the loop over args_str.split(","); unpacking a split that has
\* one part raises ValueError
RECURSIVE ParseArgs(_, _, _)
ParseArgs(args, i, kwargs) ==
    IF i > Len(args) THEN [ok |-> TRUE, kwargs |-> kwargs]
    ELSE IF Len(SplitFirst(args[i], "=")) # 2 THEN [ok |-> FALSE, kwargs |-> kwargs]
    ELSE LET kv == SplitFirst(args[i], "=")
             value == StripChars(StripChars(StripChars(kv[2], Blank), {"'"}), {"\""})
         IN ParseArgs(args, i + 1, DictSet(kwargs, StripChars(kv[1], Blank), value))

\* lines 80-98: the loop over the response lines; an exception raised inside
\* the loop is caught outside it, and finally returns what cmd holds by then
RECURSIVE ParseFrom(_, _, _)
ParseFrom(response, i, cmd) ==
    IF i > Len(response) THEN cmd
    ELSE IF StartsWith(response[i], <<"#", "#">>) THEN cmd
    ELSE IF response[i] = <<>> THEN ParseFrom(response, i + 1, cmd)
    ELSE IF ~Contains(response[i], "(") THEN ParseFrom(response, i + 1, cmd)
    ELSE IF ~Contains(response[i], ")") THEN ParseFrom(response, i + 1, cmd)
    ELSE LET parts == SplitFirst(response[i], "(")
             args == SplitAll(RStripChars(parts[2], {")"}), ",")
             kw == ParseArgs(args, 1, EmptyDict)
         IN IF ~kw.ok THEN cmd
            ELSE ParseFrom(response, i + 1,
                           Append(cmd, [funcname |-> StripChars(parts[1], Blank),
                                        kwargs |-> kw.kwargs]))

\* the command list both parsers return for a language-model response
ParsePlan(response) == ParseFrom(response, 1, <<>>)

\* the lines a language model's answer is made of here
PlanLines ==
    { <<"v_search", "(", "query", "=", "'", "x", "'", ")">>,
      <<"get_neighbors", "(", "entity", "=", "x", ",", " ", "depth", "=", "y", ")">>,
      <<"#", "#", " ", "x">>,
      <<>>,
      <<"x">>,
      <<"v_add", "(", "document", ")">>,
      <<"v_add", "(", "document", "=", "'", "x", ",", "y", "'", ")">> }

\* the answers of at most n lines
RECURSIVE Responses(_)
Responses(n) ==
    IF n = 0 THEN {<<>>}
    ELSE Responses(n - 1)
           \cup {Append(r, l) : r \in {q \in Responses(n - 1) : Len(q) = n - 1}, l \in PlanLines}

MaxPlanLines == 3

InitParse ==
    /\ CmIdle
    /\ searcher = Off /\ writer = Off /\ resolver = Off /\ finder = Off
    /\ MoreIdle
    /\ plan \in {[pc |-> "ready", response |-> r, cmd |-> <<>>] : r \in Responses(MaxPlanLines)}

\* MemorySearcher._generate_search_queries with the model answering plan.response
GenerateSearchQueries ==
    /\ plan.pc = "ready"
    /\ plan' = [plan EXCEPT !.pc = "searcher", !.cmd = ParsePlan(plan.response)]
    /\ UNCHANGED <<cm_vars, searcher, writer, resolver, finder, more_vars>>

\* MemoryWriter._extract_knowledge with the model answering plan.response
ExtractKnowledge ==
    /\ plan.pc = "ready"
    /\ plan' = [plan EXCEPT !.pc = "writer", !.cmd = ParsePlan(plan.response)]
    /\ UNCHANGED <<cm_vars, searcher, writer, resolver, finder, more_vars>>

\* generate_response raises: the except clause logs, finally returns the empty cmd
PlanLLMFails ==
    /\ plan.pc = "ready"
    /\ plan' = [plan EXCEPT !.pc = "llm_failed", !.cmd = <<>>]
    /\ UNCHANGED <<cm_vars, searcher, writer, resolver, finder, more_vars>>

NextParse ==
    \/ GenerateSearchQueries
    \/ ExtractKnowledge
    \/ PlanLLMFails

SpecParse == InitParse /\ [][NextParse]_vars

\* ======================================================= MemorySearcher.search
MaxSearchLines == 2
MaxDocs == 2

\* the ids of the documents in the vector store
Docs == 1..MaxDocs

\* lines 39-45: funcname_project_dict, with the parameters of each primitive
SearchParams ==
    [f \in {<<"v_search">>, <<"g_search_entity">>, <<"get_neighbors">>,
            <<"get_shared_neighbors">>, <<"find_connections">>} |->
        CASE f = <<"v_search">> -> {<<"query">>}
          [] f = <<"g_search_entity">> -> {<<"entity_name">>}
          [] f = <<"get_neighbors">> -> {<<"entity_name">>, <<"neighbor_type">>}
          [] f = <<"get_shared_neighbors">> ->
                 {<<"entity_name1">>, <<"entity_name2">>, <<"neighbor_type">>}
          [] f = <<"find_connections">> -> {<<"entity_name1">>, <<"entity_name2">>}]

\* the lines a search plan is made of here
SearchLines ==
    { <<"v_search", "(", "query", "=", "'", "x", "'", ")">>,
      <<"g_search_entity", "(", "entity_name", "=", "x", ")">>,
      <<"find_connections", "(", "entity_name1", "=", "x", ",", " ",
        "entity_name2", "=", "y", ")">>,
      <<"get_neighbors", "(", "entity", "=", "x", ",", " ", "depth", "=", "y", ")">>,
      <<"web_search", "(", "query", "=", "'", "x", "'", ")">> }

RECURSIVE SearchResponses(_)
SearchResponses(n) ==
    IF n = 0 THEN {<<>>}
    ELSE SearchResponses(n - 1)
           \cup {Append(r, l) : r \in {q \in SearchResponses(n - 1) : Len(q) = n - 1},
                                l \in SearchLines}

\* the hit lists vector_store.search can return: documents, none twice
RECURSIVE HitLists(_)
HitLists(n) ==
    IF n = 0 THEN {<<>>}
    ELSE HitLists(n - 1)
           \cup {Append(h, d) : h \in {g \in HitLists(n - 1) : Len(g) = n - 1}, d \in Docs}

VectorHits == {h \in HitLists(MaxDocs) : \A i, j \in 1..Len(h) : i # j => h[i] # h[j]}

\* (a bug the surfaced-once claim must catch: the used ids are not consulted)
FreshHits_all(h, used) == h

\* lines 105-110: the hits whose id is not in used, in order
RECURSIVE FreshHits(_, _)
FreshHits(h, used) ==
    IF h = <<>> THEN <<>>
    ELSE IF h[1] \in used THEN FreshHits(Tail(h), used)
    ELSE <<h[1]>> \o FreshHits(Tail(h), used \cup {h[1]})

Range(s) == {s[i] : i \in 1..Len(s)}

InitSearch ==
    /\ CmIdle
    /\ plan = Off /\ writer = Off /\ resolver = Off /\ finder = Off
    /\ MoreIdle
    /\ searcher \in {[pc |-> "ready", response |-> r, search_queries |-> <<>>, pos |-> 1,
                      returned_results |-> <<>>, used_uuid |-> u, log |-> <<>>,
                      llm_failed |-> FALSE] :
                         r \in SearchResponses(MaxSearchLines), u \in {{}, {1}}}

\* line 37 and lines 68-98: used_uuid is cleared and the answer parsed
SearchBegin ==
    /\ searcher.pc = "ready"
    /\ searcher' = [searcher EXCEPT !.pc = "loop", !.used_uuid = {},
                                    !.search_queries = ParsePlan(searcher.response)]
    /\ UNCHANGED <<cm_vars, plan, writer, resolver, finder, more_vars>>

\* lines 95-98: generate_response raises, the plan is empty
SearchLLMFails ==
    /\ searcher.pc = "ready"
    /\ searcher' = [searcher EXCEPT !.pc = "loop", !.used_uuid = {},
                                    !.search_queries = <<>>, !.llm_failed = TRUE]
    /\ UNCHANGED <<cm_vars, plan, writer, resolver, finder, more_vars>>

\* the plan line the loop of lines 47-59 is at
AtLine == searcher.pc = "loop" /\ searcher.pos <= Len(searcher.search_queries)
Query == searcher.search_queries[searcher.pos]
Known == Query.funcname \in DOMAIN SearchParams
Callable == DOMAIN Query.kwargs = SearchParams[Query.funcname]
Step(outcome) == [searcher EXCEPT !.pos = @ + 1, !.log = Append(@, outcome)]

\* lines 48-50: unknown function name, warning and continue
SearchUnknown ==
    /\ AtLine /\ ~Known
    /\ searcher' = Step("unknown")
    /\ UNCHANGED <<cm_vars, plan, writer, resolver, finder, more_vars>>

\* an exception that leaves search instead of being caught at line 58
SearchRaises_uncaught ==
    /\ AtLine /\ Known
    /\ searcher' = [searcher EXCEPT !.pc = "raised"]
    /\ UNCHANGED <<cm_vars, plan, writer, resolver, finder, more_vars>>

\* lines 52-59: the primitive raises (always when the keywords do not fit its
\* parameters), the exception is logged and the loop goes on
SearchRaises ==
    /\ AtLine /\ Known
    /\ searcher' = Step("raised")
    /\ UNCHANGED <<cm_vars, plan, writer, resolver, finder, more_vars>>

\* lines 100-111: _vector_search adds the hits not surfaced before
SearchVector(hits) ==
    /\ AtLine /\ Known /\ Callable
    /\ Query.funcname = <<"v_search">>
    /\ searcher' = [Step("ok") EXCEPT
           !.returned_results =
               @ \o [i \in 1..Len(FreshHits(hits, searcher.used_uuid)) |->
                        [line |-> searcher.pos,
                         doc |-> FreshHits(hits, searcher.used_uuid)[i]]],
           !.used_uuid = @ \cup Range(hits)]
    /\ UNCHANGED <<cm_vars, plan, writer, resolver, finder, more_vars>>

\* lines 54-57: a graph primitive returns; a list extends the results, a
\* single value (g_search_entity) is appended
SearchGraph(n) ==
    /\ AtLine /\ Known /\ Callable
    /\ Query.funcname # <<"v_search">>
    /\ searcher' = [Step("ok") EXCEPT
           !.returned_results =
               IF Query.funcname = <<"g_search_entity">>
               THEN Append(@, [line |-> searcher.pos, doc |-> 0])
               ELSE @ \o [i \in 1..n |-> [line |-> searcher.pos, doc |-> 0]]]
    /\ UNCHANGED <<cm_vars, plan, writer, resolver, finder, more_vars>>

\* line 61
SearchReturn ==
    /\ searcher.pc = "loop"
    /\ searcher.pos > Len(searcher.search_queries)
    /\ searcher' = [searcher EXCEPT !.pc = "returned"]
    /\ UNCHANGED <<cm_vars, plan, writer, resolver, finder, more_vars>>

NextSearch ==
    \/ SearchBegin
    \/ SearchLLMFails
    \/ SearchUnknown
    \/ SearchRaises
    \/ \E hits \in VectorHits : SearchVector(hits)
    \/ \E n \in 0..1 : SearchGraph(n)
    \/ SearchReturn

SpecSearch == InitSearch /\ [][NextSearch]_vars

\* ========================================== MemoryWriter.process_interaction
MaxWriteLines == 2

\* line 41: deque(maxlen=10)
RecentUpdateMaxLen == 10

\* the numerals ids are written with
Numeral == <<"1", "2", "3", "4", "5", "6", "7", "8", "9", "10", "11", "12", "13", "14">>

\* the id the vector store gives to the k-th document added in this run
NewId(k) == <<"n", Numeral[k]>>

\* deque.append on a deque with maxlen: a full deque drops its oldest entry
DequeAppend_unbounded(buf, e) == Append(buf, e)
DequeAppend(buf, e) ==
    IF Len(buf) >= RecentUpdateMaxLen THEN Append(Tail(buf), e) ELSE Append(buf, e)

\* lines 24-28: MemoryUpdateCommand; uuid <<>> is None
Command(type, content, uuid) == [type |-> type, content |-> content, uuid |-> uuid]

\* lines 56-63: json.dump of [asdict(cmd) for cmd in recent_update]
DumpRecent(buf) == FileOf([i \in 1..Len(buf) |-> [type |-> buf[i].type,
                                                   content |-> buf[i].content,
                                                   uuid |-> buf[i].uuid]])

\* lines 46-54: every item of the file appended to the empty deque
RECURSIVE LoadItems(_, _)
LoadItems(data, buf) ==
    IF data = <<>> THEN buf
    ELSE LoadItems(Tail(data),
                   DequeAppend(buf, Command(data[1].type, data[1].content, data[1].uuid)))

LoadRecentUpdate(file) == IF file.state = "ok" THEN LoadItems(file.data, <<>>) ELSE <<>>

\* the buffer left by n earlier v_add writes, of documents b1 .. bn
PriorWrites(n) == [k \in 1..n |-> Command("v_add", <<"o">>, <<"b", Numeral[k]>>)]

\* the vector store holding document a1 and the n documents written earlier
PriorStore(n) ==
    [u \in {<<"a", "1">>} \cup {<<"b", Numeral[k]>> : k \in 1..Max(n, 1)} |-> <<"o">>]

\* the lines a write plan is made of here
WriteLines ==
    { <<"v_add", "(", "document", "=", "'", "x", "'", ")">>,
      <<"v_update", "(", "uuid", "=", "'", "a", "'", ",", " ",
        "new_document", "=", "'", "y", "'", ")">>,
      <<"v_update", "(", "uuid", "=", "'", "b", "'", ",", " ",
        "document", "=", "'", "y", "'", ")">>,
      <<"v_update", "(", "uuid", "=", "'", "c", "'", ",", " ",
        "new_document", "=", "'", "y", "'", ")">>,
      <<"v_update", "(", "new_document", "=", "'", "y", "'", ")">>,
      <<"update_username", "(", "new_name", "=", "'", "z", "'", ")">>,
      <<"v_search", "(", "query", "=", "'", "x", "'", ")">> }

RECURSIVE WriteResponses(_)
WriteResponses(n) ==
    IF n = 0 THEN {<<>>}
    ELSE WriteResponses(n - 1)
           \cup {Append(r, l) : r \in {q \in WriteResponses(n - 1) : Len(q) = n - 1},
                                l \in WriteLines}

\* lines 80, 83, 86: "add" / "username" / "update" in funcname.lower()
HasAdd(f) == f \in {<<"v_add">>}
HasUsername(f) == f \in {<<"update_username">>}
HasUpdate(f) == f \in {<<"v_update">>, <<"update_username">>}

\* what a write cycle can change
Persisted(w) == [store |-> w.store, username |-> w.username,
                 recent_update |-> w.recent_update, recent_file |-> w.recent_file]

\* MemoryWriter.__init__ after n earlier writes, process_interaction about to
\* be called with used_uuid = u and the model about to answer r
WriterAt(n, u, r) ==
    [pc |-> "ready", response |-> r, update_cmd |-> <<>>, pos |-> 1, used_uuid |-> u,
     store |-> PriorStore(n), added |-> 0, username |-> <<"you">>,
     recent_update |-> LoadRecentUpdate(DumpRecent(PriorWrites(n))),
     recent_file |-> IF n = 0 THEN MissingFile(<<>>) ELSE DumpRecent(PriorWrites(n)),
     uuid_to_update |-> <<>>, last |-> "none",
     start |-> [store |-> PriorStore(n), username |-> <<"you">>,
                recent_update |-> LoadRecentUpdate(DumpRecent(PriorWrites(n))),
                recent_file |-> IF n = 0 THEN MissingFile(<<>>)
                                ELSE DumpRecent(PriorWrites(n))]]

InitWrite ==
    /\ CmIdle
    /\ plan = Off /\ searcher = Off /\ resolver = Off /\ finder = Off
    /\ MoreIdle
    /\ writer \in {WriterAt(n, u, r) :
                      n \in {0, 1, RecentUpdateMaxLen},
                      u \in {{}, {<<"a", "1">>}, {<<"a", "1">>, <<"b", "1">>}},
                      r \in WriteResponses(MaxWriteLines)}

\* line 70: _extract_knowledge parses the model's answer
WriteBegin ==
    /\ writer.pc = "ready"
    /\ writer' = [writer EXCEPT !.pc = "loop", !.update_cmd = ParsePlan(writer.response)]
    /\ UNCHANGED <<cm_vars, plan, searcher, resolver, finder, more_vars>>

\* lines 134-137: generate_response raises, the plan is empty
WriteLLMFails ==
    /\ writer.pc = "ready"
    /\ writer' = [writer EXCEPT !.pc = "loop", !.update_cmd = <<>>, !.last = "llm_failed"]
    /\ UNCHANGED <<cm_vars, plan, searcher, resolver, finder, more_vars>>

\* the plan line the loop of lines 79-100 is at
AtWriteLine == writer.pc = "loop" /\ writer.pos <= Len(writer.update_cmd)
WriteCmd == writer.update_cmd[writer.pos]

\* lines 97-99: new_document, or document when that is empty
UpdateContent ==
    IF DictGet(WriteCmd.kwargs, <<"new_document">>) = <<>>
    THEN DictGet(WriteCmd.kwargs, <<"document">>)
    ELSE DictGet(WriteCmd.kwargs, <<"new_document">>)

\* lines 88-93: the ids of used_uuid the short id is a prefix of
Matches == {u \in writer.used_uuid : StartsWith(u, DictGet(WriteCmd.kwargs, <<"uuid">>))}

\* lines 80-82 and 139-146: v_add stores the document under a new id, records
\* the write and saves the buffer
WriteAdd ==
    /\ AtWriteLine /\ HasAdd(WriteCmd.funcname)
    /\ LET id == NewId(writer.added + 1)
           content == DictGet(WriteCmd.kwargs, <<"document">>)
           buf == DequeAppend(writer.recent_update, Command("v_add", content, id))
       IN writer' = [writer EXCEPT
              !.pos = @ + 1, !.added = @ + 1, !.last = "v_add",
              !.store = [u \in DOMAIN @ \cup {id} |-> IF u = id THEN content ELSE @[u]],
              !.recent_update = buf,
              !.recent_file = DumpRecent(buf)]
    /\ UNCHANGED <<cm_vars, plan, searcher, resolver, finder, more_vars>>

\* line 144: add_documents raises (embedder or store failure); nothing in
\* process_interaction catches it
WriteAddFails ==
    /\ AtWriteLine /\ HasAdd(WriteCmd.funcname)
    /\ writer' = [writer EXCEPT !.pc = "aborted", !.last = "add_failed"]
    /\ UNCHANGED <<cm_vars, plan, searcher, resolver, finder, more_vars>>

\* lines 83-85 and 160-164
WriteUsername ==
    /\ AtWriteLine /\ ~HasAdd(WriteCmd.funcname) /\ HasUsername(WriteCmd.funcname)
    /\ writer' = [writer EXCEPT !.pos = @ + 1, !.last = "username",
                                !.username = DictGet(WriteCmd.kwargs, <<"new_name">>)]
    /\ UNCHANGED <<cm_vars, plan, searcher, resolver, finder, more_vars>>

\* the id line 100 passes to v_update: the first id of used_uuid (in the set's
\* iteration order) the short id is a prefix of, else what uuid_to_update
\* holds from an earlier line (<<>>: the local was never bound)
Targets == IF Matches = {} THEN {writer.uuid_to_update} ELSE Matches

\* lines 86-100 and 148-158: v_update overwrites the document (or the store
\* reports failure), records the write and saves the buffer
WriteUpdate(target, ok) ==
    /\ AtWriteLine
    /\ ~HasAdd(WriteCmd.funcname) /\ ~HasUsername(WriteCmd.funcname)
    /\ HasUpdate(WriteCmd.funcname)
    /\ target \in Targets
    /\ target # <<>>
    /\ LET buf == DequeAppend(writer.recent_update,
                              Command("v_update", UpdateContent, target))
       IN writer' = [writer EXCEPT
              !.pos = @ + 1, !.uuid_to_update = target,
              !.last = IF ok THEN "v_update" ELSE "update_failed",
              !.store = IF ok THEN [@ EXCEPT ![target] = UpdateContent] ELSE @,
              !.recent_update = buf,
              !.recent_file = DumpRecent(buf)]
    /\ UNCHANGED <<cm_vars, plan, searcher, resolver, finder, more_vars>>

\* line 100 with uuid_to_update never bound: UnboundLocalError leaves
\* process_interaction
WriteUpdateUnbound ==
    /\ AtWriteLine
    /\ ~HasAdd(WriteCmd.funcname) /\ ~HasUsername(WriteCmd.funcname)
    /\ HasUpdate(WriteCmd.funcname)
    /\ Targets = {<<>>}
    /\ writer' = [writer EXCEPT !.pc = "aborted", !.last = "unbound"]
    /\ UNCHANGED <<cm_vars, plan, searcher, resolver, finder, more_vars>>

\* a function name none of the three branches takes
WriteSkip ==
    /\ AtWriteLine
    /\ ~HasAdd(WriteCmd.funcname) /\ ~HasUsername(WriteCmd.funcname)
    /\ ~HasUpdate(WriteCmd.funcname)
    /\ writer' = [writer EXCEPT !.pos = @ + 1, !.last = "skip"]
    /\ UNCHANGED <<cm_vars, plan, searcher, resolver, finder, more_vars>>

\* the loop of line 79 is exhausted
WriteReturn ==
    /\ writer.pc = "loop"
    /\ writer.pos > Len(writer.update_cmd)
    /\ writer' = [writer EXCEPT !.pc = "done"]
    /\ UNCHANGED <<cm_vars, plan, searcher, resolver, finder, more_vars>>

\* lines 41-44: the process is started again, the buffer is loaded from the file
WriterRestart ==
    /\ writer.pc \in {"done", "aborted"}
    /\ writer' = [writer EXCEPT !.pc = "reloaded",
                                !.recent_update = LoadRecentUpdate(writer.recent_file)]
    /\ UNCHANGED <<cm_vars, plan, searcher, resolver, finder, more_vars>>

NextWrite ==
    \/ WriteBegin
    \/ WriteLLMFails
    \/ WriteAdd
    \/ WriteAddFails
    \/ WriteUsername
    \/ \E target \in DOMAIN writer.store, ok \in BOOLEAN : WriteUpdate(target, ok)
    \/ WriteUpdateUnbound
    \/ WriteSkip
    \/ WriteReturn
    \/ WriterRestart

SpecWrite == InitWrite /\ [][NextWrite]_vars

\* ============================================ InMemoryGraphRetriever.get_aliased_name
\* Names here are sequences of single characters.
MaxResolves == 3

\* str.lower()
LowerChar(c) ==
    CASE c = "A" -> "a" [] c = "B" -> "b" [] c = "C" -> "c" [] c = "X" -> "x"
      [] c = "T" -> "t" [] c = "Y" -> "y" [] OTHER -> c
Lower(s) == [i \in 1..Len(s) |-> LowerChar(s[i])]

\* lines 361-370: dp[i][j], the length of the common run ending at s1[i], s2[j]
RECURSIVE Dp(_, _, _, _)
Dp(s1, s2, i, j) ==
    IF i = 0 \/ j = 0 THEN 0
    ELSE IF s1[i] = s2[j] THEN Dp(s1, s2, i - 1, j - 1) + 1
    ELSE 0

RECURSIVE SetMax(_)
SetMax(S) ==
    IF S = {} THEN 0
    ELSE LET x == CHOOSE y \in S : TRUE IN Max(x, SetMax(S \ {x}))

\* get_maximum_common_substring_length
MaxCommonSubstringLength(s1, s2) ==
    SetMax({Dp(s1, s2, i, j) : i \in 1..Len(s1), j \in 1..Len(s2)})

\* an acceptance test that halves the length with integer division
FuzzyAccept_floor(common, len) == common >= Max(len \div 2, 2)

\* line 377: common_length >= max(entity_id_len / 2, 2), with real division
FuzzyAccept(common, len) == 2 * common >= len /\ common >= 2

\* lines 372-380: the loop over entities.keys() in insertion order; best is
\* <<>> while best_match is None
RECURSIVE FuzzyFrom(_, _, _, _, _)
FuzzyFrom(raw, keys, k, max_common_length, best) ==
    IF k > Len(keys) THEN best
    ELSE IF MaxCommonSubstringLength(raw, keys[k]) > max_common_length
            /\ FuzzyAccept(MaxCommonSubstringLength(raw, keys[k]), Len(raw))
         THEN FuzzyFrom(raw, keys, k + 1, MaxCommonSubstringLength(raw, keys[k]), keys[k])
         ELSE FuzzyFrom(raw, keys, k + 1, max_common_length, best)

\* what get_aliased_name returns: an id, None, or the empty input itself
Found(id) == [value |-> "id", id |-> id]
NotFound == [value |-> "none", id |-> <<>>]
Echo == [value |-> "empty", id |-> <<>>]

\* a resolution that does not store its fuzzy match
Memoize_none(alias_map, raw, id) == alias_map

\* line 383: alias_map[entity_id] = best_match
Memoize(alias_map, raw, id) == DictSet(alias_map, raw, id)

\* lines 343-385: the outcome of one call: the result, whether the fuzzy
\* search ran, and the alias map afterwards
Resolve(raw, keys, alias_map) ==
    IF raw = <<>> THEN [result |-> Echo, fuzzy |-> FALSE, alias_map |-> alias_map]
    ELSE IF raw \in Range(keys)
    THEN [result |-> Found(raw), fuzzy |-> FALSE, alias_map |-> alias_map]
    ELSE IF Lower(raw) \in Range(keys)
    THEN [result |-> Found(Lower(raw)), fuzzy |-> FALSE, alias_map |-> alias_map]
    ELSE IF raw \in DOMAIN alias_map
    THEN [result |-> Found(alias_map[raw]), fuzzy |-> FALSE, alias_map |-> alias_map]
    ELSE IF Lower(raw) \in DOMAIN alias_map
    THEN [result |-> Found(alias_map[Lower(raw)]), fuzzy |-> FALSE, alias_map |-> alias_map]
    ELSE IF FuzzyFrom(raw, keys, 1, 0, <<>>) = <<>>
    THEN [result |-> NotFound, fuzzy |-> TRUE, alias_map |-> alias_map]
    ELSE [result |-> Found(FuzzyFrom(raw, keys, 1, 0, <<>>)), fuzzy |-> TRUE,
          alias_map |-> Memoize(alias_map, raw, FuzzyFrom(raw, keys, 1, 0, <<>>))]

\* the entity tables (keys in insertion order) and alias maps loaded at start
EntityTables ==
    { <<>>,
      << <<"a", "b", "c">>, <<"c", "d", "e">> >>,
      << <<"c", "d", "e">>, <<"a", "b", "c">> >> }

AliasMaps == { EmptyDict, [r \in {<<"t", "y">>} |-> <<"a", "b", "c">>] }

\* the surface forms resolved
RawNames ==
    { <<>>,
      <<"a", "b", "c">>, <<"A", "B", "C">>,
      <<"t", "y">>, <<"T", "Y">>,
      <<"b", "c", "x">>, <<"B", "C", "X">>,
      <<"a">>, <<"b", "c", "d">>,
      <<"a", "b", "x", "x", "x">>, <<"a", "b", "c", "x", "x">> }

InitAlias ==
    /\ CmIdle
    /\ plan = Off /\ searcher = Off /\ writer = Off /\ finder = Off
    /\ MoreIdle
    /\ resolver \in {[pc |-> "idle", entities |-> t, alias_map |-> a,
                      alias_file |-> IF a = EmptyDict THEN MissingFile(a) ELSE FileOf(a),
                      start_map |-> a, calls |-> <<>>] :
                        t \in EntityTables, a \in AliasMaps}

\* one call of get_aliased_name, save_alias_map included
GetAliasedName(raw) ==
    /\ resolver.pc = "idle"
    /\ Len(resolver.calls) < MaxResolves
    /\ LET r == Resolve(raw, resolver.entities, resolver.alias_map)
       IN resolver' = [resolver EXCEPT
              !.alias_map = r.alias_map,
              !.alias_file = IF r.fuzzy /\ r.result.value = "id" THEN FileOf(r.alias_map) ELSE @,
              !.calls = Append(@, [raw |-> raw, result |-> r.result, fuzzy |-> r.fuzzy])]
    /\ UNCHANGED <<cm_vars, plan, searcher, writer, finder, more_vars>>

NextAlias == \E raw \in RawNames : GetAliasedName(raw)

SpecAlias == InitAlias /\ [][NextAlias]_vars

\* --------------------------------------- the entity table changing under the alias map
MaxAdmin == 2

\* the ids entities are added under
MergeIds == { <<"a", "b", "c">>, <<"c", "d", "e">>, <<"b", "c", "d">> }

\* an entity table and an alias map whose values are entities of the table
InitMerge ==
    /\ CmIdle
    /\ plan = Off /\ searcher = Off /\ writer = Off /\ finder = Off
    /\ MoreIdle
    /\ resolver \in {[pc |-> "idle", entities |-> t, alias_map |-> a,
                      alias_file |-> IF a = EmptyDict THEN MissingFile(a) ELSE FileOf(a),
                      start_map |-> a, calls |-> <<>>, admin |-> 0] :
                        t \in EntityTables \ {<<>>}, a \in AliasMaps}

\* KnowledgeGraph.add_entity, lines 27-33, on the entity table
alias_add_entity(id) ==
    /\ resolver.pc = "idle"
    /\ resolver.admin < MaxAdmin
    /\ resolver' = [resolver EXCEPT
           !.admin = @ + 1,
           !.entities = IF id \in Range(@) THEN @ ELSE Append(@, id)]
    /\ UNCHANGED <<cm_vars, plan, searcher, writer, finder, more_vars>>

\* merge_events.py: the target is created when missing (lines 56-67), the
\* entities merged into it are deleted from kg.entities (lines 158-160) and
\* the graph data is saved (line 170); the alias map is not touched
merge_events(target, removed) ==
    /\ resolver.pc = "idle"
    /\ resolver.admin < MaxAdmin
    /\ removed # {}
    /\ removed \subseteq Range(resolver.entities) \ {target}
    /\ LET kept == IF target \in Range(resolver.entities) THEN resolver.entities
                   ELSE Append(resolver.entities, target)
       IN resolver' = [resolver EXCEPT
              !.admin = @ + 1,
              !.entities = SelectSeq(kept, LAMBDA id : id \notin removed)]
    /\ UNCHANGED <<cm_vars, plan, searcher, writer, finder, more_vars>>

\* the surface forms resolved while the table changes: an alias of the map
\* loaded at start, a name only the fuzzy search matches, and an entity id
MergeRaws == { <<"t", "y">>, <<"b", "c", "x">>, <<"a", "b", "c">> }

NextMerge ==
    \/ \E raw \in MergeRaws : GetAliasedName(raw)
    \/ \E id \in MergeIds : alias_add_entity(id)
    \/ \E target \in MergeIds, removed \in SUBSET MergeIds : merge_events(target, removed)

SpecMerge == InitMerge /\ [][NextMerge]_vars

\* ===================================================== KnowledgeGraph.find_path
MaxNodes == 3
MaxEdges == 2
MaxDepth == 2

\* the ids relations and queries can name; the last one is no entity
Ids == 1..MaxNodes
EntityIds == 1..(MaxNodes - 1)

\* the edge sets of at most n relations: DiGraph keeps one edge per ordered pair
RECURSIVE EdgeSets(_)
EdgeSets(n) ==
    IF n = 0 THEN {{}}
    ELSE EdgeSets(n - 1) \cup {E \cup {e} : E \in EdgeSets(n - 1), e \in Ids \X Ids}

\* lines 33 and 51: add_node for every entity, add_edge adds its endpoints too
GraphNodes(edges) == EntityIds \cup {e[1] : e \in edges} \cup {e[2] : e \in edges}

\* the neighbours a search step can move to: successors, and predecessors too
\* in the graph returned by to_undirected()
Successors(edges, undirected, u) ==
    {e[2] : e \in {d \in edges : d[1] = u}}
        \cup (IF undirected THEN {e[1] : e \in {d \in edges : d[2] = u}} ELSE {})

\* a path of cutoff edges is extended one edge too far
WithinCutoff_loose(path, cutoff) == Len(path) - 1 <= cutoff

\* nx.all_simple_paths: a path is extended only while it has fewer than cutoff edges
WithinCutoff(path, cutoff) == Len(path) - 1 < cutoff

\* nx.all_simple_paths: depth-first extension of a simple path by unvisited
\* neighbours; a path that reaches the target is reported and not extended
RECURSIVE PathsFrom(_, _, _, _, _)
PathsFrom(edges, undirected, path, target, cutoff) ==
    IF ~WithinCutoff(path, cutoff) THEN {}
    ELSE UNION {IF v = target THEN {Append(path, v)}
                ELSE PathsFrom(edges, undirected, Append(path, v), target, cutoff) :
                   v \in Successors(edges, undirected, path[Len(path)]) \ Range(path)}

\* lines 126-137: find_path; with start = end the library reports, depending
\* on its version, no path or the path of the single node
FindPathResults(edges, a, b, max_depth, undirected) ==
    IF a \notin GraphNodes(edges) \/ b \notin GraphNodes(edges) THEN {{}}
    ELSE IF a = b THEN {{}, {<<a>>}}
    ELSE {PathsFrom(edges, undirected, <<a>>, b, max_depth)}

InitPath ==
    /\ CmIdle
    /\ plan = Off /\ searcher = Off /\ writer = Off /\ resolver = Off
    /\ MoreIdle
    /\ finder \in {[pc |-> "idle", edges |-> E, a |-> 0, b |-> 0, max_depth |-> 0,
                    undirected |-> FALSE, paths |-> {}] : E \in EdgeSets(MaxEdges)}

FindPath(a, b, max_depth, undirected) ==
    /\ finder.pc = "idle"
    /\ \E ps \in FindPathResults(finder.edges, a, b, max_depth, undirected) :
           finder' = [finder EXCEPT !.pc = "returned", !.a = a, !.b = b,
                                    !.max_depth = max_depth, !.undirected = undirected,
                                    !.paths = ps]
    /\ UNCHANGED <<cm_vars, plan, searcher, writer, resolver, more_vars>>

NextPath ==
    \E a \in Ids, b \in Ids, max_depth \in 0..MaxDepth, undirected \in BOOLEAN :
        FindPath(a, b, max_depth, undirected)

SpecPath == InitPath /\ [][NextPath]_vars

\* ================================================================ VectorStore
MaxStoreOps == 3
MaxK == 2

\* the contents documents and queries are made of
Contents == {"x", "y"}

\* the sequences of n distinct elements of S
RECURSIVE Arrangements(_, _)
Arrangements(S, n) ==
    IF n = 0 THEN {<<>>}
    ELSE UNION {{Append(h, d) : d \in S \ Range(h)} : h \in Arrangements(S, n - 1)}

\* the k documents nearest to the query, nearest first: a document whose
\* content is the query is at distance 0, in front of every other one
Nearest(documents, query, k) ==
    {h \in Arrangements(DOMAIN documents, Min(k, Cardinality(DOMAIN documents))) :
        /\ \A i, j \in 1..Len(h) :
               (i < j /\ documents[h[j]] = query) => documents[h[i]] = query
        /\ \A d \in DOMAIN documents \ Range(h) :
               documents[d] = query => \A i \in 1..Len(h) : documents[h[i]] = query}

\* CustomVectorStore.search, lines 590-662: the first iteration ranks every
\* document (start_tag ""), the second adds up to k documents not yet found
CustomHits(documents, query, k) ==
    UNION {{h \o g : g \in UNION {Arrangements(DOMAIN documents \ Range(h), m) :
                                     m \in 0..Min(k, Cardinality(DOMAIN documents \ Range(h)))}} :
              h \in Nearest(documents, query, k)}

\* the hits of a search, as (id, content) pairs
HitsOf(documents, h) == [i \in 1..Len(h) |-> [id |-> h[i], content |-> documents[h[i]]]]

\* VectorStoreFactory.create_vector_store: a chroma or a custom store, empty
InitStore ==
    /\ CmIdle
    /\ plan = Off /\ searcher = Off /\ writer = Off /\ resolver = Off /\ finder = Off
    /\ kg = Off /\ loader = Off /\ agent = Off /\ llm = Off
    /\ vstore \in {[pc |-> "idle", kind |-> s, documents |-> EmptyDict, doc_count_ever |-> 0,
                    ops |-> 0, last |-> "none", deleted |-> {}, updated |-> EmptyDict,
                    query |-> "x", k |-> 0, hits |-> <<>>] : s \in {"chroma", "custom"}}

\* add_documents([d]): the document is stored under a new id, which is returned
StoreAdd(content) ==
    /\ vstore.pc = "idle" /\ vstore.ops < MaxStoreOps
    /\ vstore' = [vstore EXCEPT
           !.ops = @ + 1, !.last = "add", !.doc_count_ever = @ + 1,
           !.documents = [d \in DOMAIN @ \cup {vstore.doc_count_ever + 1} |->
                             IF d = vstore.doc_count_ever + 1 THEN content ELSE @[d]]]
    /\ UNCHANGED <<cm_vars, plan, searcher, writer, resolver, finder, kg, loader, late_vars>>

\* update_document(id, d2): chroma updates the stored content (lines 211-232),
\* custom does nothing (line 528-529); the call returns
StoreUpdate(id, content) ==
    /\ vstore.pc = "idle" /\ vstore.ops < MaxStoreOps
    /\ id \in DOMAIN vstore.documents
    /\ vstore' = [vstore EXCEPT
           !.ops = @ + 1, !.last = "update",
           !.documents = IF vstore.kind = "chroma" THEN [@ EXCEPT ![id] = content] ELSE @,
           !.updated = DictSet(@, id, content)]
    /\ UNCHANGED <<cm_vars, plan, searcher, writer, resolver, finder, kg, loader, late_vars>>

\* delete_documents([id]): chroma removes the document (lines 201-209),
\* custom does nothing (line 525-526); the call returns
StoreDelete(id) ==
    /\ vstore.pc = "idle" /\ vstore.ops < MaxStoreOps
    /\ id \in DOMAIN vstore.documents
    /\ vstore' = [vstore EXCEPT
           !.ops = @ + 1, !.last = "delete",
           !.documents = IF vstore.kind = "chroma"
                         THEN [d \in DOMAIN @ \ {id} |-> @[d]] ELSE @,
           !.deleted = @ \cup {id}]
    /\ UNCHANGED <<cm_vars, plan, searcher, writer, resolver, finder, kg, loader, late_vars>>

\* search(query, k)
StoreSearch(query, k, h) ==
    /\ vstore.pc = "idle" /\ vstore.ops < MaxStoreOps
    /\ h \in IF vstore.kind = "chroma" THEN Nearest(vstore.documents, query, k)
             ELSE CustomHits(vstore.documents, query, k)
    /\ vstore' = [vstore EXCEPT !.ops = @ + 1, !.last = "search", !.query = query, !.k = k,
                                !.hits = HitsOf(vstore.documents, h)]
    /\ UNCHANGED <<cm_vars, plan, searcher, writer, resolver, finder, kg, loader, late_vars>>

NextStore ==
    \/ \E c \in Contents : StoreAdd(c)
    \/ \E id \in 1..MaxStoreOps, c \in Contents : StoreUpdate(id, c)
    \/ \E id \in 1..MaxStoreOps : StoreDelete(id)
    \/ \E q \in Contents, k \in 1..MaxK :
           \E h \in UNION {Arrangements(1..MaxStoreOps, n) : n \in 0..MaxStoreOps} :
               StoreSearch(q, k, h)

SpecStore == InitStore /\ [][NextStore]_vars

\* ============================================ InMemoryGraphRetriever.find_connections
MaxPathNum == 2

\* line 544: find_path(entity_a, entity_b, max_depth=3, undirected=True)
ConnectionDepth == 3

\* the ids and the relations of the graphs the connections are looked up in
ConnIds == {1, 2, 3, 4, 5}
ConnEdgePool ==
    {<<1, 2>>, <<2, 1>>, <<3, 2>>, <<3, 4>>, <<4, 5>>, <<1, 5>>, <<1, 3>>}

\* the reverse edge is looked up before the forward edge
Arrow_reverseFirst(edges, u, v) ==
    IF <<v, u>> \in edges THEN "<--"
    ELSE IF <<u, v>> \in edges THEN "-->" ELSE "unknown"

\* lines 553-565: the forward edge if it is stored, else the reverse edge
Arrow(edges, u, v) ==
    IF <<u, v>> \in edges THEN "-->"
    ELSE IF <<v, u>> \in edges THEN "<--" ELSE "unknown"

\* lines 548-569: one description per hop of the path
Describe(edges, path) ==
    [i \in 1..(Len(path) - 1) |->
        [u |-> path[i], arrow |-> Arrow(edges, path[i], path[i + 1]), v |-> path[i + 1]]]

\* line 572: list.sort(key=path_length) is stable, so the paths come out in
\* an order of find_path's list in which no longer path precedes a shorter one
SortedByLength(paths) ==
    {h \in Arrangements(paths, Cardinality(paths)) :
        \A i \in 1..Len(h), j \in 1..Len(h) : i < j => Len(h[i]) <= Len(h[j])}

\* lines 574-575
Truncate(s, n) == IF n > 0 THEN SubSeq(s, 1, Min(n, Len(s))) ELSE s

\* lines 541-575
FindConnectionsResults(edges, a, b, n) ==
    UNION {{Truncate([i \in 1..Len(h) |-> Describe(edges, h[i])], n) :
               h \in SortedByLength(ps)} :
              ps \in FindPathResults(edges, a, b, ConnectionDepth, TRUE)}

InitConn ==
    /\ CmIdle
    /\ plan = Off /\ searcher = Off /\ writer = Off /\ resolver = Off
    /\ MoreIdle
    /\ finder \in {[pc |-> "idle", edges |-> E, a |-> 0, b |-> 0, n |-> 0,
                    connections |-> <<>>] : E \in SUBSET ConnEdgePool}

find_connections(a, b, n) ==
    /\ finder.pc = "idle"
    /\ \E c \in FindConnectionsResults(finder.edges, a, b, n) :
           finder' = [finder EXCEPT !.pc = "connected", !.a = a, !.b = b, !.n = n,
                                    !.connections = c]
    /\ UNCHANGED <<cm_vars, plan, searcher, writer, resolver, more_vars>>

NextConn ==
    \E a \in ConnIds, b \in ConnIds, n \in (-1)..MaxPathNum : find_connections(a, b, n)

SpecConn == InitConn /\ [][NextConn]_vars

\* ============================================================= KnowledgeGraph
MaxGraphOps == 3

\* lines 22-25: no entity, no relation, an empty DiGraph
EmptyGraph == [entities |-> EmptyDict, relations |-> EmptyDict,
               nodes |-> EmptyDict, edges |-> EmptyDict]

\* the entities and relations the operations are called with
Entities == {[id |-> i, name |-> n] : i \in {1, 2}, n \in {"n", "m"}}
Relations ==
    {[id |-> r, source_id |-> e[1], target_id |-> e[2], type |-> t] :
        r \in {1, 2}, e \in {<<1, 2>>, <<2, 1>>, <<1, 3>>}, t \in {"t", "u"}}

\* DiGraph.add_node(id, name=...): the node's attributes are set
AddNode(g, id, name) ==
    [g EXCEPT !.nodes = [n \in DOMAIN @ \cup {id} |-> IF n = id THEN name ELSE @[n]]]

\* DiGraph.add_edge(u, v, id=..., type=...): missing end nodes are created
\* without attributes, the edge's attributes are set
AddEdge(g, r) ==
    [g EXCEPT
        !.nodes = [n \in DOMAIN @ \cup {r.source_id, r.target_id} |->
                      IF n \in DOMAIN @ THEN @[n] ELSE "none"],
        !.edges = [e \in DOMAIN @ \cup {<<r.source_id, r.target_id>>} |->
                      IF e = <<r.source_id, r.target_id>>
                      THEN [id |-> r.id, type |-> r.type] ELSE @[e]]]

\* an insertion that replaces the entity already stored under the id
AddEntityTo_overwrite(g, e) ==
    AddNode([g EXCEPT !.entities = DictSet(@, e.id, e)], e.id, e.name)

\* lines 27-33
AddEntityTo(g, e) ==
    IF e.id \in DOMAIN g.entities THEN g
    ELSE AddNode([g EXCEPT !.entities = DictSet(@, e.id, e)], e.id, e.name)

\* lines 35-43
UpdateEntityIn(g, e) ==
    IF e.id \notin DOMAIN g.entities THEN g
    ELSE AddNode([g EXCEPT !.entities = DictSet(@, e.id, e)], e.id, e.name)

\* lines 45-53
AddRelationTo(g, r) ==
    IF r.id \in DOMAIN g.relations THEN g
    ELSE AddEdge([g EXCEPT !.relations = DictSet(@, r.id, r)], r)

InitGraph ==
    /\ CmIdle
    /\ plan = Off /\ searcher = Off /\ writer = Off /\ resolver = Off /\ finder = Off
    /\ vstore = Off /\ loader = Off /\ agent = Off /\ llm = Off
    /\ kg = [pc |-> "idle", graph |-> EmptyGraph, ops |-> 0, last |-> "none"]

add_entity(e) ==
    /\ kg.pc = "idle" /\ kg.ops < MaxGraphOps
    /\ kg' = [kg EXCEPT !.graph = AddEntityTo(@, e), !.ops = @ + 1,
                        !.last = IF e.id \in DOMAIN kg.graph.entities THEN "dup_entity"
                                 ELSE "add_entity"]
    /\ UNCHANGED <<cm_vars, plan, searcher, writer, resolver, finder, vstore, loader, late_vars>>

update_entity(e) ==
    /\ kg.pc = "idle" /\ kg.ops < MaxGraphOps
    /\ kg' = [kg EXCEPT !.graph = UpdateEntityIn(@, e), !.ops = @ + 1,
                        !.last = IF e.id \in DOMAIN kg.graph.entities THEN "update_entity"
                                 ELSE "no_entity"]
    /\ UNCHANGED <<cm_vars, plan, searcher, writer, resolver, finder, vstore, loader, late_vars>>

add_relation(r) ==
    /\ kg.pc = "idle" /\ kg.ops < MaxGraphOps
    /\ kg' = [kg EXCEPT !.graph = AddRelationTo(@, r), !.ops = @ + 1,
                        !.last = IF r.id \in DOMAIN kg.graph.relations THEN "dup_relation"
                                 ELSE "add_relation"]
    /\ UNCHANGED <<cm_vars, plan, searcher, writer, resolver, finder, vstore, loader, late_vars>>

NextGraph ==
    \/ \E e \in Entities : add_entity(e)
    \/ \E e \in Entities : update_entity(e)
    \/ \E r \in Relations : add_relation(r)

SpecGraph == InitGraph /\ [][NextGraph]_vars

\* ---------------------------------------------- KnowledgeGraph.get_neighbors
\* the nodes in the order the neighbours are listed in here
NodeOrder == <<1, 2, 3>>

\* lines 88-99 (outgoing) and 102-113 (incoming), for one neighbour n of e: the
\* type of a node is read first, and a node add_edge created has none
NeighborRaises(g, n) == g.nodes[n] = "none"

OutgoingOf(g, e) == SelectSeq(NodeOrder, LAMBDA n : <<e, n>> \in DOMAIN g.edges)
IncomingOf(g, e) == SelectSeq(NodeOrder, LAMBDA n : <<n, e>> \in DOMAIN g.edges)

\* the (neighbour, relation type) pairs of the neighbours that are entities
Reported(g, ns, e, incoming) ==
    LET kept == SelectSeq(ns, LAMBDA n : n \in DOMAIN g.entities) IN
    [i \in 1..Len(kept) |->
        [id |-> kept[i],
         r_type |-> IF incoming THEN <<"<-", g.edges[<<kept[i], e>>].type>>
                    ELSE <<g.edges[<<e, kept[i]>>].type>>]]

\* lines 59-115, without the two filters
GetNeighbors(g, e, direction) ==
    IF e \notin DOMAIN g.nodes THEN [raised |-> FALSE, results |-> <<>>]
    ELSE LET out == IF direction \in {"outgoing", "both"} THEN OutgoingOf(g, e) ELSE <<>>
             inc == IF direction \in {"incoming", "both"} THEN IncomingOf(g, e) ELSE <<>>
         IN IF \E i \in 1..Len(out \o inc) : NeighborRaises(g, (out \o inc)[i])
            THEN [raised |-> TRUE, results |-> <<>>]
            ELSE [raised |-> FALSE,
                  results |-> Reported(g, out, e, FALSE) \o Reported(g, inc, e, TRUE)]

InitNeighbors ==
    /\ CmIdle
    /\ plan = Off /\ searcher = Off /\ writer = Off /\ resolver = Off /\ finder = Off
    /\ vstore = Off /\ loader = Off /\ agent = Off /\ llm = Off
    /\ kg = [pc |-> "idle", graph |-> EmptyGraph, ops |-> 0, last |-> "none",
             entity_id |-> 0, direction |-> "none",
             neighbors |-> [raised |-> FALSE, results |-> <<>>]]

get_neighbors(e, direction) ==
    /\ kg.pc = "idle"
    /\ kg' = [kg EXCEPT !.last = "get_neighbors", !.entity_id = e, !.direction = direction,
                        !.neighbors = GetNeighbors(kg.graph, e, direction)]
    /\ UNCHANGED <<cm_vars, plan, searcher, writer, resolver, finder, vstore, loader, late_vars>>

NextNeighbors ==
    \/ \E e \in Entities : add_entity(e)
    \/ \E r \in Relations : add_relation(r)
    \/ \E e \in {1, 2}, direction \in {"outgoing", "incoming", "both"} :
          get_neighbors(e, direction)

SpecNeighbors == InitNeighbors /\ [][NextNeighbors]_vars

\* ============================================================= start-up loads
\* a record of knowledge_graph.json that Entity(...) / Relation(...) rejects
\* (a key is missing, or the type is not a member of the enumeration)
BadRecord == [valid |-> FALSE]

GoodEntity(i, n) == [valid |-> TRUE, id |-> i, name |-> n]
GoodRelation(r, s, t) ==
    [valid |-> TRUE, id |-> r, source_id |-> s, target_id |-> t, type |-> "t"]

\* lines 267-275, 277-287: the records are added one by one; the record that
\* raises ends the loop, what was added before it stays
RECURSIVE LoadEntities(_, _)
LoadEntities(records, g) ==
    IF records = <<>> THEN [graph |-> g, raised |-> FALSE]
    ELSE IF ~records[1].valid THEN [graph |-> g, raised |-> TRUE]
    ELSE LoadEntities(Tail(records),
                      AddEntityTo(g, [id |-> records[1].id, name |-> records[1].name]))

RECURSIVE LoadRelations(_, _)
LoadRelations(records, g) ==
    IF records = <<>> THEN g
    ELSE IF ~records[1].valid THEN g
    ELSE LoadRelations(Tail(records),
                       AddRelationTo(g, [id |-> records[1].id,
                                         source_id |-> records[1].source_id,
                                         target_id |-> records[1].target_id,
                                         type |-> records[1].type]))

\* lines 260-293: one try around open, json.load and both loops
LoadGraphData(file) ==
    IF file.state # "ok" THEN EmptyGraph
    ELSE LET e == LoadEntities(file.data.entities, EmptyGraph)
         IN  IF e.raised THEN e.graph ELSE LoadRelations(file.data.relations, e.graph)

\* lines 294-299
LoadAliasMap(file) == IF file.state = "ok" THEN file.data ELSE EmptyDict

\* what the five files can hold when the program starts
AsFound(d) == {FileOf(d), MissingFile(d), TornFile(FileOf(d))}

IndexFiles ==
    AsFound([total_count |-> 1,
             files |-> <<[filename |-> 0, count |-> 1, start_index |-> 0, end_index |-> 1]>>])

ContextFiles == AsFound([summary |-> [text |-> 1, ws |-> FALSE], context |-> <<1>>])

EntityRecords ==
    { <<>>, <<GoodEntity(1, "n")>>, <<BadRecord>>,
      <<GoodEntity(1, "n"), BadRecord>>, <<BadRecord, GoodEntity(1, "n")>>,
      <<GoodEntity(1, "n"), GoodEntity(2, "m")>> }

RelationRecords ==
    { <<>>, <<GoodRelation(1, 1, 2)>>, <<BadRecord>>,
      <<GoodRelation(1, 1, 2), BadRecord>> }

GraphFiles ==
    UNION {AsFound([entities |-> e, relations |-> r]) :
              e \in EntityRecords, r \in RelationRecords}

AliasFiles == AsFound([r \in {<<"t", "y">>} |-> <<"a", "b", "c">>])

RecentUpdateFiles == AsFound(<<Command("v_add", <<"o">>, <<"b", "1">>)>>)

InitLoad ==
    /\ CmIdle
    /\ plan = Off /\ searcher = Off /\ writer = Off /\ resolver = Off /\ finder = Off
    /\ vstore = Off /\ kg = Off /\ agent = Off /\ llm = Off
    /\ \E i \in IndexFiles, c \in ContextFiles, g \in GraphFiles,
          a \in AliasFiles, u \in RecentUpdateFiles :
          loader = [pc |-> "index",
                    files |-> [index |-> i, context |-> c, graph |-> g,
                               alias |-> a, recent_update |-> u],
                    index |-> EmptyIndex, context |-> EmptyContext,
                    graph |-> EmptyGraph, alias_map |-> EmptyDict,
                    recent_update |-> <<>>]

\* ConversationManager.__init__: self.index = self._load_index()
StartLoadIndex ==
    /\ loader.pc = "index"
    /\ loader' = [loader EXCEPT !.index = LoadIndex(loader.files.index), !.pc = "context"]
    /\ UNCHANGED <<cm_vars, plan, searcher, writer, resolver, finder, vstore, kg, late_vars>>

\* ConversationManager.__init__: self._load_context()
StartLoadContext ==
    /\ loader.pc = "context"
    /\ loader' = [loader EXCEPT !.context = LoadContext(loader.files.context), !.pc = "graph"]
    /\ UNCHANGED <<cm_vars, plan, searcher, writer, resolver, finder, vstore, kg, late_vars>>

\* load_graph_data, first try block
StartLoadGraph ==
    /\ loader.pc = "graph"
    /\ loader' = [loader EXCEPT !.graph = LoadGraphData(loader.files.graph), !.pc = "alias"]
    /\ UNCHANGED <<cm_vars, plan, searcher, writer, resolver, finder, vstore, kg, late_vars>>

\* load_graph_data, second try block
StartLoadAlias ==
    /\ loader.pc = "alias"
    /\ loader' = [loader EXCEPT !.alias_map = LoadAliasMap(loader.files.alias),
                                !.pc = "recent_update"]
    /\ UNCHANGED <<cm_vars, plan, searcher, writer, resolver, finder, vstore, kg, late_vars>>

\* MemoryWriter.__init__: self.load_recent_update()
StartLoadRecentUpdate ==
    /\ loader.pc = "recent_update"
    /\ loader' = [loader EXCEPT
                     !.recent_update = LoadRecentUpdate(loader.files.recent_update),
                     !.pc = "started"]
    /\ UNCHANGED <<cm_vars, plan, searcher, writer, resolver, finder, vstore, kg, late_vars>>

NextLoad ==
    \/ StartLoadIndex
    \/ StartLoadContext
    \/ StartLoadGraph
    \/ StartLoadAlias
    \/ StartLoadRecentUpdate

SpecLoad == InitLoad /\ [][NextLoad]_vars

\* ========================================== LuoTianyiAgent.handle_user_input
MaxTurns == 3
MaxResponses == 2

\* the agent between turns; events are the calls of the running (or last) turn
\* on the conversation manager, the memory manager and the chat model, log is
\* the sources add_conversation was called with since the start
InitAgent ==
    /\ CmIdle
    /\ plan = Off /\ searcher = Off /\ writer = Off /\ resolver = Off /\ finder = Off
    /\ vstore = Off /\ kg = Off /\ loader = Off /\ llm = Off
    /\ agent = [pc |-> "idle", turns |-> 0, events |-> <<>>, responses |-> 0, added |-> 0,
                log |-> <<>>]

Call(name) == [agent EXCEPT !.events = Append(@, name)]

\* lines 73-75: start_thinking, conversation_manager.get_context()
HU_GetContext ==
    /\ agent.pc = "idle" /\ agent.turns < MaxTurns
    /\ agent' = [agent EXCEPT !.pc = "context", !.turns = @ + 1,
                              !.events = <<"get_context">>,
                              !.responses = 0, !.added = 0]
    /\ UNCHANGED <<cm_vars, plan, searcher, writer, resolver, finder, vstore, kg, loader, llm>>

\* lines 77-78: get_username, get_knowledge(user_input, conversation_history)
HU_GetKnowledge ==
    /\ agent.pc = "context"
    /\ agent' = [Call("get_knowledge") EXCEPT !.pc = "knowledge"]
    /\ UNCHANGED <<cm_vars, plan, searcher, writer, resolver, finder, vstore, kg, loader, llm>>

\* line 79: add_conversation(ConversationSource.USER, user_input)
HU_AppendUser ==
    /\ agent.pc = "knowledge"
    /\ agent' = [Call("append_user") EXCEPT !.pc = "appended", !.log = Append(@, "user")]
    /\ UNCHANGED <<cm_vars, plan, searcher, writer, resolver, finder, vstore, kg, loader, llm>>

\* line 80: main_chat.generate_response returns n responses
HU_Generate(n) ==
    /\ agent.pc = "appended"
    /\ agent' = [Call("generate") EXCEPT !.pc = "replies", !.responses = n]
    /\ UNCHANGED <<cm_vars, plan, searcher, writer, resolver, finder, vstore, kg, loader, llm>>

\* line 80: main_chat.generate_response raises; nothing in the handler
\* catches it, the turn ends
HU_GenerateRaises ==
    /\ agent.pc = "appended"
    /\ agent' = [Call("generate_raised") EXCEPT !.pc = "idle"]
    /\ UNCHANGED <<cm_vars, plan, searcher, writer, resolver, finder, vstore, kg, loader, llm>>

\* lines 84-87: add_conversation(ConversationSource.AGENT, resp.content), tts task
HU_AppendReply ==
    /\ agent.pc = "replies" /\ agent.added < agent.responses
    /\ agent' = [Call("append_reply") EXCEPT !.added = @ + 1, !.log = Append(@, "agent")]
    /\ UNCHANGED <<cm_vars, plan, searcher, writer, resolver, finder, vstore, kg, loader, llm>>

\* lines 90-91: post_process_interaction(user_input, contents, history)
HU_PostProcess ==
    /\ agent.pc = "replies" /\ agent.added = agent.responses
    /\ agent' = [Call("post_process") EXCEPT !.pc = "tts"]
    /\ UNCHANGED <<cm_vars, plan, searcher, writer, resolver, finder, vstore, kg, loader, llm>>

\* lines 93-99 and the rest: the speech tasks finish, the turn returns
HU_Return ==
    /\ agent.pc = "tts"
    /\ agent' = [agent EXCEPT !.pc = "idle"]
    /\ UNCHANGED <<cm_vars, plan, searcher, writer, resolver, finder, vstore, kg, loader, llm>>

NextAgent ==
    \/ HU_GetContext
    \/ HU_GetKnowledge
    \/ HU_AppendUser
    \/ \E n \in 0..MaxResponses : HU_Generate(n)
    \/ HU_GenerateRaises
    \/ HU_AppendReply
    \/ HU_PostProcess
    \/ HU_Return

SpecAgent == InitAgent /\ [][NextAgent]_vars

\* ========================================================== CustomVectorStore
MaxCustomAdds == 2
MaxBatch == 2

\* lines 347-353: no document, no tag, no embedding
EmptyStore == [documents |-> EmptyDict, content_embeddings |-> {},
               tags |-> EmptyDict, tag_embeddings |-> {}, doc_count_ever |-> 0]

\* the three-tuple documents added here, by subject and object
Tuples == {[subject |-> "a", object |-> "b"], [subject |-> "b", object |-> "c"],
           [subject |-> "a", object |-> "a"]}

\* the batches add_documents is called with
RECURSIVE Batches(_)
Batches(n) ==
    IF n = 0 THEN {<<>>}
    ELSE Batches(n - 1)
           \cup {Append(b, d) : b \in {c \in Batches(n - 1) : Len(c) = n - 1}, d \in Tuples}

\* ThemeTag.add_content, lines 284-286
AddContent(contents, id) ==
    IF \E i \in 1..Len(contents) : contents[i] = id THEN contents ELSE Append(contents, id)

\* lines 496-510: the tag is embedded and created when it is new. f counts
\* the embed_query calls still answered (f - 1 more; 0: none ever fails).
NewTag(st, tag) ==
    [st EXCEPT !.tags = DictSet(@, tag, <<>>), !.tag_embeddings = @ \cup {tag}]

Answered(f) == IF f = 0 THEN 0 ELSE f - 1

\* lines 479-512, one document of the batch; the f-th embed_query call raises
AddOne(st, doc, f) ==
    LET id == st.doc_count_ever + 1 IN
    IF f = 1 THEN [store |-> st, f |-> f, raised |-> TRUE, ids |-> <<>>]
    ELSE
    LET s1 == [st EXCEPT !.documents = DictSet(@, id, doc),
                         !.content_embeddings = @ \cup {id},
                         !.doc_count_ever = @ + 1]
        f1 == Answered(f)
        newS == doc.subject \notin DOMAIN s1.tags
    IN IF newS /\ f1 = 1 THEN [store |-> s1, f |-> f1, raised |-> TRUE, ids |-> <<id>>]
       ELSE
       LET s2 == IF newS THEN NewTag(s1, doc.subject) ELSE s1
           f2 == IF newS THEN Answered(f1) ELSE f1
           newO == doc.object \notin DOMAIN s2.tags
       IN IF newO /\ f2 = 1 THEN [store |-> s2, f |-> f2, raised |-> TRUE, ids |-> <<id>>]
          ELSE
          LET s3 == IF newO THEN NewTag(s2, doc.object) ELSE s2
              f3 == IF newO THEN Answered(f2) ELSE f2
          IN [store |-> [s3 EXCEPT !.tags[doc.subject] = AddContent(@, id),
                                   !.tags[doc.object] = AddContent(@, id)],
              f |-> f3, raised |-> FALSE, ids |-> <<id>>]

\* lines 477-523: the loop over the batch; an exception ends it and is re-raised
RECURSIVE AddDocuments(_, _, _)
AddDocuments(st, docs, f) ==
    IF docs = <<>> THEN [store |-> st, raised |-> FALSE, ids |-> <<>>]
    ELSE LET one == AddOne(st, Head(docs), f) IN
         IF one.raised THEN [store |-> one.store, raised |-> TRUE, ids |-> one.ids]
         ELSE LET rest == AddDocuments(one.store, Tail(docs), one.f) IN
              [store |-> rest.store, raised |-> rest.raised, ids |-> one.ids \o rest.ids]

InitCustomAdd ==
    /\ CmIdle
    /\ plan = Off /\ searcher = Off /\ writer = Off /\ resolver = Off /\ finder = Off
    /\ kg = Off /\ loader = Off /\ agent = Off /\ llm = Off
    /\ vstore = [pc |-> "idle", store |-> EmptyStore, ops |-> 0, assigned |-> <<>>,
                 last |-> "none"]

\* add_documents(docs) with an Embedder whose f-th call raises (0: none)
custom_add_documents(docs, f) ==
    /\ vstore.pc = "idle" /\ vstore.ops < MaxCustomAdds
    /\ LET r == AddDocuments(vstore.store, docs, f) IN
       vstore' = [vstore EXCEPT !.store = r.store, !.ops = @ + 1,
                                !.assigned = @ \o r.ids,
                                !.last = IF r.raised THEN "raised" ELSE "added"]
    /\ UNCHANGED <<cm_vars, plan, searcher, writer, resolver, finder, kg, loader, late_vars>>

NextCustomAdd ==
    \E docs \in Batches(MaxBatch) \ {<<>>}, f \in 0..(3 * MaxBatch) :
        custom_add_documents(docs, f)

SpecCustomAdd == InitCustomAdd /\ [][NextCustomAdd]_vars

\* --------------------------------------------------- CustomVectorStore.search
MaxIterations == 2

\* the stores searched: what add_documents makes of these batches
SearchBatches ==
    { <<>>,
      <<[subject |-> "a", object |-> "b"]>>,
      <<[subject |-> "a", object |-> "b"], [subject |-> "b", object |-> "c"]>>,
      <<[subject |-> "a", object |-> "b"], [subject |-> "b", object |-> "c"],
        [subject |-> "a", object |-> "a"]>>,
      <<[subject |-> "a", object |-> "b"], [subject |-> "a", object |-> "b"],
        [subject |-> "c", object |-> "c"]>> }

\* the sequence without the later copies of its elements
RECURSIVE Dedupe(_)
Dedupe(s) ==
    IF s = <<>> THEN <<>>
    ELSE LET d == Dedupe(SubSeq(s, 1, Len(s) - 1)) IN
         IF s[Len(s)] \in Range(d) THEN d ELSE Append(d, s[Len(s)])

\* np.argsort(scores)[-k:][::-1] over the entries c, given the documents in
\* descending order of similarity to the query: the k best entries (copies of
\* a document score alike); [-0:] is the whole array
TopK(c, rank, k) ==
    LET byScore == [i \in 1..Len(rank) |-> SelectSeq(c, LAMBDA d : d = rank[i])]
        RECURSIVE Flat(_)
        Flat(i) == IF i > Len(rank) THEN <<>> ELSE byScore[i] \o Flat(i + 1)
        sorted == Flat(1)
    IN IF k = 0 THEN sorted ELSE SubSeq(sorted, 1, Min(k, Len(sorted)))

\* the order the documents are held in (doc_1, doc_2, ...)
AllDocs(st) == [i \in 1..st.doc_count_ever |-> i]

\* _tag_search, lines 667-701: every document for a tag without embedding,
\* else the documents of the top_n = 2 tags most similar to the tag (the tag
\* itself and the tag near it), a document once for each of them it is under
TagSearch(st, tag, near) ==
    IF tag \notin st.tag_embeddings THEN AllDocs(st)
    ELSE IF Cardinality(st.tag_embeddings) = 1 THEN st.tags[tag]
    ELSE st.tags[tag] \o st.tags[near[tag]]

\* lines 626-647: the loop over the seed tags of one iteration
RECURSIVE IterDocs(_, _, _, _, _, _, _)
IterDocs(st, theme_tags, rank, near, k, searched_doc_ids, iter_docs) ==
    IF theme_tags = <<>> THEN iter_docs
    ELSE LET top == TopK(TagSearch(st, Head(theme_tags), near), rank, k)
             fresh == SelectSeq(Dedupe(top),
                                LAMBDA d : d \notin searched_doc_ids /\ d \notin Range(iter_docs))
         IN IterDocs(st, Tail(theme_tags), rank, near, k, searched_doc_ids, iter_docs \o fresh)

\* lines 655-658: the subjects and objects of the kept documents that were no
\* seed yet
RECURSIVE NewThemeTags(_, _, _, _)
NewThemeTags(st, docs, searched_tags, new) ==
    IF docs = <<>> THEN new
    ELSE LET d == st.documents[Head(docs)]
             n1 == IF d.subject \notin searched_tags /\ d.subject \notin Range(new)
                   THEN Append(new, d.subject) ELSE new
             n2 == IF d.object \notin searched_tags /\ d.object \notin Range(n1)
                   THEN Append(n1, d.object) ELSE n1
         IN NewThemeTags(st, Tail(docs), searched_tags, n2)

\* the documents in descending order of similarity to the query, and for
\* each tag the other tag most similar to it
Rankings(st) == Arrangements(DOMAIN st.documents, Cardinality(DOMAIN st.documents))
Nears(st) == {n \in [st.tag_embeddings -> st.tag_embeddings] :
                 \A t \in st.tag_embeddings :
                    IF Cardinality(st.tag_embeddings) = 1 THEN TRUE ELSE n[t] # t}

NoSearch == [k |-> 0, iterations |-> 0, rank |-> <<>>, near |-> EmptyDict, done |-> 0,
             theme_tags |-> <<>>, results |-> <<>>, searched_tags |-> <<>>,
             seeds |-> <<>>]

InitCustomSearch ==
    /\ CmIdle
    /\ plan = Off /\ searcher = Off /\ writer = Off /\ resolver = Off /\ finder = Off
    /\ kg = Off /\ loader = Off /\ agent = Off /\ llm = Off
    /\ vstore \in {[pc |-> "idle", store |-> AddDocuments(EmptyStore, b, 0).store,
                    call |-> NoSearch] : b \in SearchBatches}

\* lines 603-605: nothing to search in
custom_search_empty(k, iterations, start_tag) ==
    /\ vstore.pc = "idle"
    /\ vstore.store.content_embeddings = {}
    /\ vstore' = [vstore EXCEPT !.pc = "returned",
                     !.call = [NoSearch EXCEPT !.k = k, !.iterations = iterations]]
    /\ UNCHANGED <<cm_vars, plan, searcher, writer, resolver, finder, kg, loader, late_vars>>

\* lines 607-620: the query is embedded, which fixes the similarities
custom_search_begin(k, iterations, start_tag, rank, near) ==
    /\ vstore.pc = "idle"
    /\ vstore.store.content_embeddings # {}
    /\ vstore' = [vstore EXCEPT !.pc = "iterating",
                     !.call = [NoSearch EXCEPT !.k = k, !.iterations = iterations,
                                               !.rank = rank, !.near = near,
                                               !.theme_tags = <<start_tag>>]]
    /\ UNCHANGED <<cm_vars, plan, searcher, writer, resolver, finder, kg, loader, late_vars>>

\* lines 622-659: one iteration
custom_search_iteration ==
    /\ vstore.pc = "iterating"
    /\ vstore.call.done < vstore.call.iterations
    /\ LET c == vstore.call
           iter_docs == IterDocs(vstore.store, c.theme_tags, c.rank, c.near, c.k,
                                 Range(c.results), <<>>)
           kept == TopK(iter_docs, c.rank, c.k)
           tags == c.searched_tags \o c.theme_tags
       IN vstore' = [vstore EXCEPT
                        !.call.done = @ + 1,
                        !.call.results = @ \o kept,
                        !.call.searched_tags = tags,
                        !.call.seeds = Append(@, c.theme_tags),
                        !.call.theme_tags = NewThemeTags(vstore.store, kept, Range(tags), <<>>)]
    /\ UNCHANGED <<cm_vars, plan, searcher, writer, resolver, finder, kg, loader, late_vars>>

\* line 661
custom_search_return ==
    /\ vstore.pc = "iterating"
    /\ vstore.call.done >= vstore.call.iterations
    /\ vstore' = [vstore EXCEPT !.pc = "returned"]
    /\ UNCHANGED <<cm_vars, plan, searcher, writer, resolver, finder, kg, loader, late_vars>>

NextCustomSearch ==
    \/ \E k \in 0..MaxK, iterations \in 0..MaxIterations, start_tag \in {"", "a"} :
          custom_search_empty(k, iterations, start_tag)
    \/ \E k \in 0..MaxK, iterations \in 0..MaxIterations, start_tag \in {"", "a"},
          rank \in Rankings(vstore.store), near \in Nears(vstore.store) :
          custom_search_begin(k, iterations, start_tag, rank, near)
    \/ custom_search_iteration
    \/ custom_search_return

SpecCustomSearch == InitCustomSearch /\ [][NextCustomSearch]_vars

\* ============================================ LLMAPIInterface.generate_response
MaxRetries == 3
MaxLLMCalls == 2

\* what an attempt can raise
AttemptErrors == {"timeout", "status"}

\* the two interfaces that retry
Interfaces == {"siliconflow", "requests"}

\* line 69 / 204: deque(maxlen=20), by its length
ResponseTimeMaxLen == 20

\* __init__: max_retries comes from the configuration
InitLLM ==
    /\ CmIdle
    /\ plan = Off /\ searcher = Off /\ writer = Off /\ resolver = Off /\ finder = Off
    /\ vstore = Off /\ kg = Off /\ loader = Off /\ agent = Off
    /\ llm \in {[pc |-> "idle", interface |-> i, max_retries |-> m, calls |-> 0, attempt |-> 0,
                 last_exception |-> "None", log |-> <<>>, raised |-> "None",
                 response_time_queue |-> 0] :
                   i \in Interfaces, m \in 0..MaxRetries}

\* lines 86 / 208-209: last_exception = None, the loop is entered
LLM_Call ==
    /\ llm.pc \in {"idle", "returned", "raised"}
    /\ llm.calls < MaxLLMCalls
    /\ llm' = [llm EXCEPT !.pc = "loop", !.calls = @ + 1, !.attempt = 0,
                          !.last_exception = "None", !.log = <<>>, !.raised = "None"]
    /\ UNCHANGED <<cm_vars, plan, searcher, writer, resolver, finder, vstore, kg, loader, agent>>

\* lines 89-101 / 211-218: the request succeeds and its content is returned
LLM_AttemptSucceeds ==
    /\ llm.pc = "loop"
    /\ llm.attempt < llm.max_retries
    /\ llm' = [llm EXCEPT !.pc = "returned",
                          !.log = Append(@, [what |-> "attempt", attempt |-> llm.attempt,
                                             outcome |-> "ok"]),
                          !.response_time_queue = Min(@ + 1, ResponseTimeMaxLen)]
    /\ UNCHANGED <<cm_vars, plan, searcher, writer, resolver, finder, vstore, kg, loader, agent>>

\* lines 103-110 / 220-227: the request or _extract_content raises e; the
\* handler keeps e and sleeps unless this was the last attempt
LLM_AttemptFails(e) ==
    /\ llm.pc = "loop"
    /\ llm.attempt < llm.max_retries
    /\ LET failed == Append(llm.log, [what |-> "attempt", attempt |-> llm.attempt,
                                      outcome |-> e])
       IN llm' = [llm EXCEPT
              !.last_exception = e,
              !.attempt = @ + 1,
              !.log = IF llm.attempt < llm.max_retries - 1
                      THEN Append(failed, [what |-> "sleep", attempt |-> llm.attempt,
                                           outcome |-> "None"])
                      ELSE failed]
    /\ UNCHANGED <<cm_vars, plan, searcher, writer, resolver, finder, vstore, kg, loader, agent>>

\* line 113 / 230: raise last_exception; raise None is a TypeError
LLM_RaiseLast ==
    /\ llm.pc = "loop"
    /\ llm.attempt >= llm.max_retries
    /\ llm' = [llm EXCEPT !.pc = "raised",
                          !.raised = IF llm.last_exception = "None" THEN "TypeError"
                                     ELSE llm.last_exception]
    /\ UNCHANGED <<cm_vars, plan, searcher, writer, resolver, finder, vstore, kg, loader, agent>>

NextLLM ==
    \/ LLM_Call
    \/ LLM_AttemptSucceeds
    \/ \E e \in AttemptErrors : LLM_AttemptFails(e)
    \/ LLM_RaiseLast

SpecLLM == InitLLM /\ [][NextLLM]_vars

\* ===================================================================== claims

\* ---- C1: at most one context compaction (_update_context) is in flight at
\* any time, also when appends are issued while an earlier one is running.
C1_AtMostOneCompaction == Cardinality(Alive) <= 1

\* ---- C2: get_knowledge never searches while a write thread started by an
\* earlier post_process_interaction call is still running.
C2_NoSearchDuringWrite == mm_pc = "searching" => WritesAlive = {}

\* ---- C3: at most one post-process memory write is in flight at any time.
C3_AtMostOneWrite == Cardinality(WritesAlive) <= 1

\* ---- C4: get_context never returns while a compaction is in flight; when it
\* was called during a compaction that then completed, the text it returns
\* holds the summary of that compaction.
C4_GetContextAfterCompaction ==
    last_context.called =>
        /\ last_context.alive = {}
        /\ (last_context.waited # 0 /\ threads[last_context.waited].pc = "done")
              => last_context.summary.text = last_context.waited

\* ---- C5: neither get_context nor context.json shows the summary of a
\* compaction together with the context that compaction has not truncated yet.
C5_SummaryAndContextTogether ==
    /\ last_context.called => ~last_context.mixed
    /\ ~file_mixed

\* ---- C6: after N appends on an initially empty log with max_file_lines = M,
\* the index has ceil(N/M) shard entries, every entry has end_index -
\* start_index = count, consecutive entries are contiguous, the first starts
\* at 0, the last ends at total_count, and total_count = N.
IndexWellFormed(idx) ==
    LET fs == idx.files
        M == max_file_lines
    IN /\ Len(fs) = (idx.total_count + M - 1) \div M
       /\ \A i \in 1..Len(fs) : fs[i].end_index - fs[i].start_index = fs[i].count
       /\ \A i \in 1..(Len(fs) - 1) : fs[i].end_index = fs[i + 1].start_index
       /\ fs # <<>> => fs[1].start_index = 0 /\ fs[Len(fs)].end_index = idx.total_count

C6_IndexShape ==
    pc = "idle" =>
        /\ IndexWellFormed(index_data)
        /\ crashes = 0 => /\ index_data.total_count = Len(appended)
                          /\ appended # <<>> => index_file = FileOf(index_data)

C6_Witness ==
    /\ pc = "idle" /\ crashes = 0
    /\ Len(index_data.files) >= 2
    /\ index_data.files[Len(index_data.files)].count < max_file_lines
    /\ max_file_lines >= 2

\* ---- C7: with intact shard files, get_history(a, b) for 0 <= a <= b <=
\* total_count returns exactly the a-th through (b-1)-th appended items, from
\* the recent window as well as from one or several shard files.
\* Intact: the shard files hold exactly the records the index counts.
Intact ==
    /\ Len(shard_files) = Len(index_data.files)
    /\ \A i \in 1..Len(shard_files) :
          /\ index_data.files[i].filename = i - 1
          /\ Len(shard_files[i]) = index_data.files[i].count

C7_GetHistoryRange ==
    (/\ last_history.called
     /\ Intact
     /\ 0 <= last_history.start
     /\ last_history.start <= last_history.end
     /\ last_history.end <= index_data.total_count)
    => /\ Len(last_history.result) = last_history.end - last_history.start
       /\ last_history.result = SubSeq(appended, last_history.start + 1, last_history.end)

\* a range read from two shard files, ending inside the recent window
C7_Witness ==
    /\ last_history.called
    /\ Intact
    /\ Len(index_data.files) >= 2
    /\ last_history.start < index_data.files[1].end_index
    /\ last_history.start >= 0
    /\ last_history.end > index_data.files[2].start_index
    /\ last_history.end <= index_data.total_count
    /\ recent_history # <<>>
    /\ last_history.end > index_data.total_count - Len(recent_history)
    /\ ~InRecentWindow(index_data, recent_history, last_history.start)

\* ---- C8: at every moment, between the steps of an append and after a crash
\* at any step, index.json counts no more records, in total and per shard,
\* than the shard files hold.
RECURSIVE TotalLines(_)
TotalLines(files) ==
    IF files = <<>> THEN 0 ELSE Len(Head(files)) + TotalLines(Tail(files))

C8_IndexNeverAhead ==
    index_file.state = "ok" =>
        LET idx == index_file.data IN
        /\ idx.total_count <= TotalLines(shard_files)
        /\ \A i \in 1..Len(idx.files) :
              /\ idx.files[i].filename + 1 <= Len(shard_files)
              /\ idx.files[i].count <= Len(shard_files[idx.files[i].filename + 1])

\* after a crash between the write of the line and the save of the index
C8_Witness ==
    /\ crashes = 1 /\ pc = "idle"
    /\ index_file.state = "ok"
    /\ index_file.data.total_count < TotalLines(shard_files)
    /\ index_file.data.total_count >= 1

\* ---- C9: from an empty context, raw_conversation_context_limit + 1 appends
\* start exactly one compaction, started by the last of them; an append that
\* leaves len(context) <= raw_conversation_context_limit starts no thread and
\* has written context.json when it returns.
AppendsDone == IF pc \in {"ac_written", "ac_indexed", "ac_check"}
               THEN Len(appended) - 1 ELSE Len(appended)

C9_OneCompactionAtLimit ==
    /\ [](/\ AppendsDone <= raw_conversation_context_limit => threads = <<>>
          /\ AppendsDone = raw_conversation_context_limit + 1 => Len(threads) = 1)
    /\ [][(pc = "ac_check" /\ pc' = "idle"
             /\ Len(context) <= raw_conversation_context_limit)
          => /\ threads' = threads
             /\ context_file' = FileOf([summary |-> summary', context |-> context'])]_vars

C9_Witness ==
    /\ pc = "idle"
    /\ Len(appended) = raw_conversation_context_limit + 1
    /\ Len(threads) = 1
    /\ context_file.state = "ok"
    /\ Len(context_file.data.context) = raw_conversation_context_limit

\* ---- C10: when a compaction completes, context holds exactly the last
\* not_zip_conversation_count items it held before, so at most that many, for
\* every not_zip_conversation_count >= 0, and context.json holds both fields.
C10_TruncatesToLast ==
    [][\A t \in 1..Len(threads) :
          /\ (threads[t].pc = "truncate" /\ threads'[t].pc = "save")
                => /\ Len(context') <= not_zip_conversation_count
                   /\ context' = SubSeq(context,
                                   Max(1, Len(context) - not_zip_conversation_count + 1),
                                   Len(context))
          /\ (threads[t].pc = "save" /\ threads'[t].pc = "done")
                => context_file' = FileOf([summary |-> summary, context |-> context])]_vars

\* C11: when the language-model call of a compaction cycle fails, the cycle
\* (its start and its failing call) leaves summary, context and context.json
\* as they were, and the appending thread's position is not affected; a
\* thread that failed never becomes the author of the summary in memory or
\* on disk.
C11_FailedCycleChangesNothing ==
    /\ [](\A t \in 1..Len(threads) :
            threads[t].pc = "failed" =>
                /\ summary.text # t
                /\ context_file.state = "ok" => context_file.data.summary.text # t)
    /\ [][\A t \in 1..Len(threads) :
            (threads[t].pc \in {"start", "llm"} /\ threads'[t].pc \in {"llm", "failed"}
                /\ threads'[t].pc # threads[t].pc)
            => UNCHANGED <<summary, context, context_file, index_file, shard_files,
                           index_data, recent_history, update_context_thread, fg_vars>>]_vars

\* a compaction cycle has failed while the context it was to compact is still whole
C11_Witness ==
    \E t \in 1..Len(threads) :
        /\ threads[t].pc = "failed"
        /\ threads[t].seen # <<>>
        /\ OverLimit(context)

\* a line of the shape name(key=value, ...): neither empty nor a terminator,
\* with both parentheses and a '=' in every comma-separated argument
WellFormed(line) ==
    /\ line # <<>>
    /\ ~StartsWith(line, <<"#", "#">>)
    /\ Contains(line, "(")
    /\ Contains(line, ")")
    /\ \A a \in 1..Len(SplitAll(RStripChars(SplitFirst(line, "(")[2], {")"}), ",")) :
           Contains(SplitAll(RStripChars(SplitFirst(line, "(")[2], {")"}), ",")[a], "=")

\* the lines in front of the first terminator line
BeforeTerminator(response) ==
    {i \in 1..Len(response) : \A j \in 1..i : ~StartsWith(response[j], <<"#", "#">>)}

\* C12: plan parsing stops at the first line starting with '##' and skips
\* empty and malformed lines without losing a later line: the parsed command
\* list has one command for every well-formed line in front of the terminator.
C12_EveryWellFormedLineParsed ==
    plan.pc \in {"searcher", "writer"} =>
        Len(plan.cmd) =
            Cardinality({i \in BeforeTerminator(plan.response) : WellFormed(plan.response[i])})

\* a well-formed line follows a line with an argument without '=', and the
\* parser returned without it
C12_Lost ==
    /\ plan.pc = "searcher"
    /\ Len(plan.response) = 2
    /\ plan.response[1] = <<"v_add", "(", "document", ")">>
    /\ WellFormed(plan.response[2])
    /\ plan.cmd = <<>>

\* C13: in MemorySearcher.search a plan line with an unknown function name,
\* or whose primitive raises, adds nothing to the result and every later plan
\* line is still executed; search never raises, and it returns the empty list
\* when the language model fails.
C13_BadLineSkipped ==
    /\ searcher.pc # "raised"
    /\ searcher.pc = "returned" =>
        /\ Len(searcher.log) = Len(searcher.search_queries)
        /\ \A i \in 1..Len(searcher.log) :
               searcher.log[i] \in {"unknown", "raised"} =>
                   \A k \in 1..Len(searcher.returned_results) :
                       searcher.returned_results[k].line # i
        /\ searcher.llm_failed => searcher.returned_results = <<>>

\* search returned after a line that raised and an unknown line, and a later
\* line has contributed its result
C13_Witness ==
    /\ searcher.pc = "returned"
    /\ \E i, j \in 1..Len(searcher.log) :
           /\ i < j
           /\ searcher.log[i] \in {"unknown", "raised"}
           /\ searcher.log[j] = "ok"
           /\ \E k \in 1..Len(searcher.returned_results) :
                  searcher.returned_results[k].line = j

\* the uuids recorded in the recent-write ring buffer
RecentUuids == {writer.recent_update[i].uuid : i \in 1..Len(writer.recent_update)} \ {<<>>}

\* the candidate ids of an update line: used_uuid and the ring buffer's uuids
Candidates == writer.used_uuid \cup RecentUuids

\* the loop is at an update line
AtUpdateLine ==
    /\ AtWriteLine
    /\ ~HasAdd(WriteCmd.funcname) /\ ~HasUsername(WriteCmd.funcname)
    /\ HasUpdate(WriteCmd.funcname)

\* C14: an update line whose short id is a prefix of no candidate id mutates
\* nothing (no document overwritten, nothing appended to the ring buffer or
\* its file) and the loop goes on to the next plan line.
C14_UnmatchedUpdateSkipped ==
    [][(AtUpdateLine
        /\ \A u \in Candidates : ~StartsWith(u, DictGet(WriteCmd.kwargs, <<"uuid">>)))
       => /\ writer'.store = writer.store
          /\ writer'.recent_update = writer.recent_update
          /\ writer'.recent_file = writer.recent_file
          /\ writer'.pc = "loop"
          /\ writer'.pos = writer.pos + 1]_vars

\* C15: when the short id of an update line is a prefix of a uuid that occurs
\* only in the ring buffer, the line overwrites the content of such a document.
C15_ResolvedAgainstRingBuffer ==
    [][(AtUpdateLine
        /\ Matches = {}
        /\ \E u \in RecentUuids : StartsWith(u, DictGet(WriteCmd.kwargs, <<"uuid">>)))
       => \E u \in RecentUuids :
              /\ StartsWith(u, DictGet(WriteCmd.kwargs, <<"uuid">>))
              /\ writer'.pc = "loop"
              /\ writer'.store[u] = UpdateContent]_vars

\* C16: after a successful v_add or v_update the newest ring-buffer entry
\* records that write, the buffer is the old one plus that entry with the
\* oldest evicted beyond 10, recent_update.json holds the buffer, and loading
\* the file gives the same buffer back.
C16_RingBufferRecordsWrites ==
    /\ [](writer.pc # "off" =>
            /\ Len(writer.recent_update) <= 10
            /\ writer.recent_file.state = "ok" =>
                   /\ writer.recent_file.data = writer.recent_update
                   /\ LoadRecentUpdate(writer.recent_file) = writer.recent_update)
    /\ [][(writer.pc = "loop" /\ writer'.pc = "loop" /\ writer'.last \in {"v_add", "v_update"}
           /\ writer'.pos = writer.pos + 1)
          => LET new == writer'.recent_update
                 old == writer.recent_update
                 e == new[Len(new)]
             IN /\ new # <<>>
                /\ e.type = writer'.last
                /\ e.uuid \in DOMAIN writer'.store
                /\ writer'.store[e.uuid] = e.content
                /\ e.type = "v_add" => e.uuid \notin DOMAIN writer.store
                /\ SubSeq(new, 1, Len(new) - 1) =
                       IF Len(old) < 10 THEN old ELSE Tail(old)
                /\ writer'.recent_file.state = "ok"
                /\ writer'.recent_file.data = new]_vars

\* a write arrived at a full buffer, evicted its oldest entry, and the
\* buffer was then loaded again from the file
C16_Witness ==
    /\ writer.pc = "reloaded"
    /\ Len(writer.recent_update) = 10
    /\ writer.recent_update[10].type \in {"v_add", "v_update"}
    /\ writer.recent_update[10].content # <<"o">>
    /\ writer.recent_update[1] = writer.start.recent_update[2]

\* C17: when a collaborator fails during a write cycle, the cycle ends with
\* the vector store, the user name and the ring buffer (in memory and on
\* disk) as they were when the cycle began.
C17_FailedCycleLeavesNothing ==
    writer.pc = "aborted" => Persisted(writer) = writer.start

\* C18: get_aliased_name is idempotent and memoized: an existing entity id
\* resolves to itself and leaves the alias map alone; a surface form that
\* resolved to an id resolves to the same id the next time without a fuzzy
\* search; the alias map grows by exactly the distinct surface forms that a
\* fuzzy search resolved.
C18_IdempotentAndMemoized ==
    /\ [](resolver.pc = "idle" =>
            /\ \A i, j \in 1..Len(resolver.calls) :
                   (i < j /\ resolver.calls[i].raw = resolver.calls[j].raw
                          /\ resolver.calls[i].result.value = "id")
                   => /\ resolver.calls[j].result = resolver.calls[i].result
                      /\ ~resolver.calls[j].fuzzy
            /\ DOMAIN resolver.alias_map \ DOMAIN resolver.start_map =
                   {resolver.calls[i].raw : i \in {k \in 1..Len(resolver.calls) :
                        resolver.calls[k].fuzzy /\ resolver.calls[k].result.value = "id"}}
            /\ \A i, j \in 1..Len(resolver.calls) :
                   (i < j /\ resolver.calls[i].raw = resolver.calls[j].raw)
                   => ~(resolver.calls[i].fuzzy /\ resolver.calls[i].result.value = "id"
                        /\ resolver.calls[j].fuzzy /\ resolver.calls[j].result.value = "id"))
    /\ [][(resolver.pc = "idle" /\ Len(resolver'.calls) = Len(resolver.calls) + 1
           /\ resolver'.calls[Len(resolver'.calls)].raw \in Range(resolver.entities))
          => /\ resolver'.calls[Len(resolver'.calls)].result =
                    Found(resolver'.calls[Len(resolver'.calls)].raw)
             /\ resolver'.alias_map = resolver.alias_map
             /\ resolver'.alias_file = resolver.alias_file]_vars

\* a surface form was resolved by the fuzzy search and then resolved again,
\* and an existing id was resolved
C18_Witness ==
    /\ resolver.pc = "idle"
    /\ Len(resolver.calls) = 3
    /\ resolver.calls[1].fuzzy /\ resolver.calls[1].result.value = "id"
    /\ resolver.calls[2].raw = resolver.calls[1].raw
    /\ resolver.calls[3].raw \in Range(resolver.entities)

\* the length of the longest string that occurs in both s1 and s2
CommonLength(s1, s2) ==
    SetMax({k \in 0..Min(Len(s1), Len(s2)) :
               \E i \in 1..(Len(s1) - k + 1), j \in 1..(Len(s2) - k + 1) :
                   SubSeq(s1, i, i + k - 1) = SubSeq(s2, j, j + k - 1)})

\* the largest CommonLength of raw with a known entity name
BestLength(raw, names) == SetMax({CommonLength(raw, n) : n \in names})

\* C19: resolution order is exact id, lowercased id, alias map exact, alias
\* map lowercased, then the fuzzy fallback, which returns an entity whose
\* longest common substring with the raw name has maximal length L, only if
\* L >= max(2, len(raw)/2), and then stores raw -> id in the alias map and in
\* its file; otherwise the result is not-found and nothing changes.
C19_ResolutionOrder ==
    [][(resolver.pc = "idle" /\ Len(resolver'.calls) = Len(resolver.calls) + 1
        /\ resolver'.calls[Len(resolver'.calls)].raw # <<>>)
       => LET c == resolver'.calls[Len(resolver'.calls)]
              names == Range(resolver.entities)
              am == resolver.alias_map
              same == resolver'.alias_map = am /\ resolver'.alias_file = resolver.alias_file
              best == BestLength(c.raw, names)
          IN IF c.raw \in names THEN c.result = Found(c.raw) /\ same
             ELSE IF Lower(c.raw) \in names THEN c.result = Found(Lower(c.raw)) /\ same
             ELSE IF c.raw \in DOMAIN am THEN c.result = Found(am[c.raw]) /\ same
             ELSE IF Lower(c.raw) \in DOMAIN am
                  THEN c.result = Found(am[Lower(c.raw)]) /\ same
             ELSE IF best >= 2 /\ 2 * best >= Len(c.raw)
                  THEN /\ c.result.value = "id"
                       /\ c.result.id \in names
                       /\ CommonLength(c.raw, c.result.id) = best
                       /\ resolver'.alias_map = DictSet(am, c.raw, c.result.id)
                       /\ resolver'.alias_file = FileOf(resolver'.alias_map)
                  ELSE c.result = NotFound /\ same]_vars

\* every rule has answered a call: a five-character name was accepted by the
\* fuzzy fallback with L = 3 and another was refused with L = 2
C19_Witness ==
    /\ resolver.pc = "idle"
    /\ Len(resolver.calls) = 3
    /\ resolver.calls[1] = [raw |-> <<"a", "b", "c", "x", "x">>,
                            result |-> Found(<<"a", "b", "c">>), fuzzy |-> TRUE]
    /\ resolver.calls[2] = [raw |-> <<"a", "b", "x", "x", "x">>,
                            result |-> NotFound, fuzzy |-> TRUE]
    /\ resolver.calls[3] = [raw |-> <<"T", "Y">>,
                            result |-> Found(<<"a", "b", "c">>), fuzzy |-> FALSE]
    /\ resolver.alias_file = FileOf(resolver.alias_map)

\* C20: find_path(a, b, max_depth, undirected) returns only simple paths from
\* a to b of at most max_depth hops, every hop a stored edge (in either
\* direction when undirected, in stored direction otherwise), and returns
\* nothing when a or b is not a node of the graph.
C20_OnlySimpleBoundedPaths ==
    finder.pc = "returned" =>
        /\ \A p \in finder.paths :
               /\ Len(p) >= 1
               /\ p[1] = finder.a
               /\ p[Len(p)] = finder.b
               /\ \A i, j \in 1..Len(p) : i # j => p[i] # p[j]
               /\ Len(p) - 1 <= finder.max_depth
               /\ \A i \in 1..(Len(p) - 1) :
                      \/ <<p[i], p[i + 1]>> \in finder.edges
                      \/ finder.undirected /\ <<p[i + 1], p[i]>> \in finder.edges
        /\ (finder.a \notin GraphNodes(finder.edges) \/ finder.b \notin GraphNodes(finder.edges))
               => finder.paths = {}

\* an undirected query returned a path of exactly max_depth hops that goes
\* against a stored edge, through a node that is no entity
C20_Witness ==
    /\ finder.pc = "returned"
    /\ finder.undirected
    /\ finder.max_depth = 2
    /\ \E p \in finder.paths :
           /\ Len(p) = 3
           /\ <<p[1], p[2]>> \notin finder.edges
           /\ p[2] \notin EntityIds

\* the ids of the documents added and not deleted since
LiveIds == (1..vstore.doc_count_ever) \ vstore.deleted

\* C21: for a chroma and for a custom store: a document added is found by a
\* search (every live document is among the hits when k is not smaller than
\* their number); after update_document(id, d2) no hit carries another
\* content than d2 for that id; after delete_documents([id]) no hit has
\* that id.
C21_AddUpdateDeleteVisible ==
    (vstore.pc = "idle" /\ vstore.last = "search") =>
        /\ \A i \in 1..Len(vstore.hits) :
               /\ vstore.hits[i].id \notin vstore.deleted
               /\ vstore.hits[i].id \in DOMAIN vstore.updated =>
                      vstore.hits[i].content = vstore.updated[vstore.hits[i].id]
        /\ vstore.k >= Cardinality(LiveIds) =>
               \A d \in LiveIds : \E i \in 1..Len(vstore.hits) : vstore.hits[i].id = d

\* C23: add_entity with an id already present, add_relation with a relation
\* id already present and update_entity with an id not present leave the
\* entity table, the relation table and the graph (nodes, edges and their
\* attributes) unchanged, so a repeated add_entity / add_relation changes
\* nothing.
C23_GuardedOperationsChangeNothing ==
    [][(kg.pc = "idle" /\ kg'.ops = kg.ops + 1
        /\ kg'.last \in {"dup_entity", "dup_relation", "no_entity"})
       => kg'.graph = kg.graph]_vars

\* an entity was added, then added again under the same id with another name
C23_Witness ==
    /\ kg.pc = "idle"
    /\ kg.ops = 3
    /\ kg.last = "dup_entity"
    /\ 1 \in DOMAIN kg.graph.entities
    /\ kg.graph.entities[1].name = "n"
    /\ kg.graph.nodes[1] = "n"
    /\ kg.graph.relations # EmptyDict

\* a file that is missing or cannot be parsed
Damaged(file) == file.state # "ok"

\* knowledge_graph.json holds a record that cannot be made an entity or relation
HasInvalidRecord(file) ==
    /\ file.state = "ok"
    /\ \/ \E i \in 1..Len(file.data.entities) : ~file.data.entities[i].valid
       \/ \E i \in 1..Len(file.data.relations) : ~file.data.relations[i].valid

\* C22: start-up always completes, and a missing or corrupt file yields the
\* empty default: index.json -> total_count 0 and no shards; context.json ->
\* empty summary and context; knowledge_graph.json missing, unparsable or
\* holding an invalid record anywhere -> no entities and no relations;
\* alias.json -> empty alias map; recent_update.json -> empty ring buffer.
C22_DamagedFilesLoadAsEmpty ==
    loader.pc = "started" =>
        /\ Damaged(loader.files.index) => loader.index = EmptyIndex
        /\ Damaged(loader.files.context) => loader.context = EmptyContext
        /\ (Damaged(loader.files.graph) \/ HasInvalidRecord(loader.files.graph)) =>
               /\ loader.graph.entities = EmptyDict
               /\ loader.graph.relations = EmptyDict
        /\ Damaged(loader.files.alias) => loader.alias_map = EmptyDict
        /\ Damaged(loader.files.recent_update) => loader.recent_update = <<>>

\* the part of C22 about files that are missing or cannot be parsed at all
C22_MissingOrUnparsable ==
    loader.pc = "started" =>
        /\ Damaged(loader.files.index) => loader.index = EmptyIndex
        /\ Damaged(loader.files.context) => loader.context = EmptyContext
        /\ Damaged(loader.files.graph) => loader.graph = EmptyGraph
        /\ Damaged(loader.files.alias) => loader.alias_map = EmptyDict
        /\ Damaged(loader.files.recent_update) => loader.recent_update = <<>>

\* C24: find_connections(a, b, n) returns the path descriptions ordered by
\* hop count ascending, at most n of them when n > 0, none of more than 3
\* hops; a hop is rendered '-->' exactly when the edge from the earlier to the
\* later node is stored, and '<--' only when just the reverse edge is stored.
C24_ConnectionsOrderedBoundedDirected ==
    finder.pc = "connected" =>
        LET c == finder.connections IN
        /\ \A i \in 1..Len(c), j \in 1..Len(c) : i < j => Len(c[i]) <= Len(c[j])
        /\ finder.n > 0 => Len(c) <= finder.n
        /\ \A i \in 1..Len(c) :
              /\ Len(c[i]) <= 3
              /\ \A k \in 1..Len(c[i]) :
                    /\ c[i][k].arrow = "-->" <=> <<c[i][k].u, c[i][k].v>> \in finder.edges
                    /\ c[i][k].arrow = "<--" =>
                           /\ <<c[i][k].v, c[i][k].u>> \in finder.edges
                           /\ <<c[i][k].u, c[i][k].v>> \notin finder.edges

\* from 2 to 5 in the whole pool: 2-1-5, 2-3-4-5 and 2-3-1-5 are found and
\* two of them kept, 2-1-3-4-5 is too long; both edges between 2 and 1 are
\* stored, the edge between 2 and 3 only as 3 -> 2
C24_Witness ==
    /\ finder.pc = "connected"
    /\ finder.edges = ConnEdgePool
    /\ finder.a = 2 /\ finder.b = 5 /\ finder.n = 2
    /\ Len(finder.connections) = 2
    /\ Len(finder.connections[1]) = 2
    /\ Len(finder.connections[2]) = 3
    /\ finder.connections[1][1].arrow = "-->"
    /\ finder.connections[2][1].arrow = "<--"

\* the entries of the index other than its last one
Sealed(idx) == SubSeq(idx.files, 1, Len(idx.files) - 1)

\* the shard files other than file number f (0-based)
OtherFiles(files, f) == [i \in (1..Len(files)) \ {f + 1} |-> files[i]]

\* C25: an append changes the index entry and the file of the last shard only,
\* or adds a new last shard when the current one holds max_file_lines records:
\* no shard ever holds more than max_file_lines records, and the filename,
\* count, start_index and end_index of a shard other than the last never
\* change once a later shard exists. (The file of a shard is compared with
\* max_file_lines in runs in which no process kill left a line the index does
\* not count.)
C25_OnlyLastShardChanges ==
    /\ [](/\ \A i \in 1..Len(index_data.files) :
                index_data.files[i].count <= max_file_lines
          /\ crashes = 0 =>
                \A i \in 1..Len(shard_files) : Len(shard_files[i]) <= max_file_lines)
    /\ [][(pc \in {"idle", "ac_written"} /\ pc' \in {"ac_written", "ac_indexed"})
          => LET last == index_data'.files[Len(index_data'.files)] IN
             /\ Len(index_data'.files) \in {Len(index_data.files), Len(index_data.files) + 1}
             /\ Len(index_data'.files) = Len(index_data.files) + 1 =>
                    /\ index_data.files # <<>> =>
                           index_data.files[Len(index_data.files)].count = max_file_lines
                    /\ SubSeq(index_data'.files, 1, Len(index_data.files)) = index_data.files
             /\ Sealed(index_data') = SubSeq(index_data.files, 1, Len(index_data'.files) - 1)
             /\ OtherFiles(shard_files', last.filename) = OtherFiles(shard_files, last.filename)
         ]_vars

\* three shards of one record each: the append that made the third has
\* returned, the first two entries are as they were
C25_Witness ==
    /\ pc = "idle" /\ crashes = 0
    /\ max_file_lines = 1
    /\ Len(index_data.files) = 3
    /\ index_data.files[3].count = 1
    /\ Len(shard_files) = 3

\* C26: after every append, and after a restart that reloads from intact
\* files, the recent window has length min(total_count, recent_limit) and
\* holds the most recently appended items in append order (the oldest item is
\* the one evicted on overflow).
C26_RecentWindowIsTail ==
    (pc = "idle" /\ Intact) =>
        LET total == index_data.total_count
            n == Min(total, recent_limit)
        IN /\ Len(recent_history) = n
           /\ Len(recent_history) <= recent_limit
           /\ total = Len(appended)
           /\ recent_history = SubSeq(appended, total - n + 1, total)

\* three appends into a window of two, then a restart that reloads the window
\* from two shard files
C26_Witness ==
    /\ pc = "idle" /\ Intact
    /\ crashes = 1
    /\ recent_limit = 2
    /\ max_file_lines = 2
    /\ index_data.total_count = 3
    /\ Len(recent_history) = 2
    /\ recent_history[1].content = 2
    /\ recent_history[2].content = 3

\* the arguments of the last get_history call, clamped as lines 148-150 do
ClampedStart == Max(0, last_history.start)
ClampedEnd == Min(last_history.end, index_data.total_count)

\* the last call was get_nearset_history
NearestCalled == last_history.called /\ "n" \in DOMAIN last_history

\* C27: get_history clamps its arguments to [0, total_count] and returns []
\* when the clamped start >= end; get_nearset_history(n) returns what
\* get_history(total_count - n, total_count) returns, which for n >= 0 is the
\* last min(n, total_count) appended items in order. (The items are compared
\* with the appended ones when the shard files are intact.)
C27_ClampedAndNearest ==
    last_history.called =>
        /\ ClampedStart >= ClampedEnd => last_history.result = <<>>
        /\ (Intact /\ ClampedStart < ClampedEnd) =>
               last_history.result = SubSeq(appended, ClampedStart + 1, ClampedEnd)
        /\ NearestCalled =>
               LET total == index_data.total_count IN
               /\ last_history.result =
                      GetHistory(index_data, recent_history, shard_files,
                                 total - last_history.n, total)
               /\ (Intact /\ last_history.n >= 0) =>
                      /\ Len(last_history.result) = Min(last_history.n, total)
                      /\ last_history.result =
                             SubSeq(appended, total - Min(last_history.n, total) + 1, total)

\* more items asked for than the log holds, read from two shard files
C27_Witness ==
    /\ NearestCalled /\ Intact
    /\ last_history.n = index_data.total_count + 1
    /\ index_data.total_count = 3
    /\ Len(index_data.files) = 2
    /\ Len(recent_history) < 3
    /\ Len(last_history.result) = 3

\* the items of the lines lo..hi of a shard file that are records, in order
RecordsOf(f, lo, hi) ==
    LET kept == SelectSeq(SubSeq(f, lo, Min(hi, Len(f))), LAMBDA l : l.valid)
    IN [k \in 1..Len(kept) |-> [source |-> kept[k].json[1], content |-> kept[k].json[2]]]

\* the file of index entry i holds the records the entry counts, as appended
Undamaged(i) ==
    LET fi == index_data.files[i] IN
    /\ fi.filename + 1 <= Len(shard_files)
    /\ shard_files[fi.filename + 1] =
           [k \in 1..fi.count |-> ItemToLine(appended[fi.start_index + k])]

IsPrefix(s, t) == Len(s) <= Len(t) /\ s = SubSeq(t, 1, Len(s))

C28_MissingShard ==
    /\ last_history.called /\ "parts" \in DOMAIN last_history /\ last_history.from_files
    /\ max_file_lines = 1
    /\ Len(shard_files) = 3
    /\ shard_files[2] = <<>>
    /\ last_history.result = <<appended[1], appended[3]>>

\* the results of the running search call that came from the vector store
VectorResults == SelectSeq(searcher.returned_results, LAMBDA r : r.doc # 0)

\* C29: within one search call no vector-store document id is surfaced more
\* than once across all v_search lines, and the set of used ids is emptied at
\* the start of each search call.
C29_EachDocumentSurfacedOnce ==
    /\ [](searcher.pc \in {"loop", "returned"} =>
             /\ \A i, j \in 1..Len(VectorResults) :
                    i # j => VectorResults[i].doc # VectorResults[j].doc
             /\ {VectorResults[i].doc : i \in 1..Len(VectorResults)} \subseteq
                    searcher.used_uuid)
    /\ [][(searcher.pc = "ready" /\ searcher'.pc = "loop") => searcher'.used_uuid = {}]_vars

\* a call whose two v_search lines each surfaced one document (the runs
\* begin with and without an id left over from the call before)
C29_Witness ==
    /\ searcher.pc = "returned"
    /\ Len(searcher.search_queries) = 2
    /\ \A i \in 1..2 : searcher.search_queries[i].funcname = <<"v_search">>
    /\ searcher.log = <<"ok", "ok">>
    /\ Len(VectorResults) = 2
    /\ VectorResults[1].line = 1 /\ VectorResults[2].line = 2
    /\ VectorResults[1].doc = 1
    /\ searcher.used_uuid = {1, 2}

\* the foreground thread is inside add_conversation
InAppend == pc \in {"ac_written", "ac_indexed", "ac_check"}

\* C30: add_conversation never waits for the LanguageModel: once called it
\* returns after its own steps (at most three more), whether or not a
\* summarisation call ever returns.
C30_AppendReturns ==
    /\ InAppend ~> pc = "idle"
    /\ [][InAppend => /\ pc' # pc => pc' \in {"ac_indexed", "ac_check", "idle"}
                      /\ (pc = "ac_written" /\ pc' # pc) => pc' = "ac_indexed"
                      /\ (pc = "ac_indexed" /\ pc' # pc) => pc' = "ac_check"
                      /\ (pc = "ac_check" /\ pc' # pc) => pc' = "idle"]_vars

\* an append has returned while the summarisation call of the first
\* compaction is still outstanding
C30_Witness ==
    /\ pc = "idle"
    /\ Len(threads) >= 1
    /\ threads[1].pc = "llm"
    /\ Len(context) > Len(threads[1].seen)

\* the position of the first event named e in the events of the turn, 0 if none
FirstEvent(e) ==
    IF \E i \in 1..Len(agent.events) : agent.events[i] = e
    THEN CHOOSE i \in 1..Len(agent.events) :
            agent.events[i] = e /\ \A j \in 1..(i - 1) : agent.events[j] # e
    ELSE 0

\* e happened, and not before d had
After(d, e) == FirstEvent(e) # 0 => (FirstEvent(d) # 0 /\ FirstEvent(d) < FirstEvent(e))

\* C31: in every turn handle_user_input handles, the user item is appended,
\* then get_knowledge runs, then the reply is generated, then the reply items
\* are appended, then post_process_interaction is launched.
C31_TurnOrder ==
    /\ After("append_user", "get_knowledge")
    /\ After("get_knowledge", "generate")
    /\ After("generate", "append_reply")
    /\ After("generate", "post_process")
    /\ \A i \in 1..Len(agent.events) :
          agent.events[i] = "append_reply" => i < FirstEvent("post_process") \/ FirstEvent("post_process") = 0

\* the order the handler has: knowledge, user item, reply, reply items, write
C31_OrderInCode ==
    /\ After("get_knowledge", "append_user")
    /\ After("append_user", "generate")
    /\ After("generate", "append_reply")
    /\ After("generate", "post_process")

\* the stored relations from s to an entity (outgoing) or from an entity to s
RelationsFrom(s) ==
    {r \in DOMAIN kg.graph.relations :
        /\ kg.graph.relations[r].source_id = s
        /\ kg.graph.relations[r].target_id \in DOMAIN kg.graph.entities}
RelationsTo(s) ==
    {r \in DOMAIN kg.graph.relations :
        /\ kg.graph.relations[r].target_id = s
        /\ kg.graph.relations[r].source_id \in DOMAIN kg.graph.entities}

\* C32: the knowledge graph is a directed multigraph: two relations with
\* distinct ids between the same ordered pair of entities are both kept, and
\* get_neighbors(source, 'outgoing') reports the neighbour once per stored
\* relation, with that relation's type ('<-' before the type for incoming).
C32_NeighbourPerRelation ==
    (kg.last = "get_neighbors" /\ ~kg.neighbors.raised) =>
        LET res == kg.neighbors.results
            rel == kg.graph.relations
        IN /\ kg.direction = "outgoing" =>
                 /\ Len(res) = Cardinality(RelationsFrom(kg.entity_id))
                 /\ \A r \in RelationsFrom(kg.entity_id) :
                       \E i \in 1..Len(res) :
                           res[i] = [id |-> rel[r].target_id, r_type |-> <<rel[r].type>>]
           /\ kg.direction = "incoming" =>
                 /\ Len(res) = Cardinality(RelationsTo(kg.entity_id))
                 /\ \A r \in RelationsTo(kg.entity_id) :
                       \E i \in 1..Len(res) :
                           res[i] = [id |-> rel[r].source_id, r_type |-> <<"<-", rel[r].type>>]

\* what holds instead: the neighbour is reported once per ordered pair, with
\* the type of the relation added last between the pair
C32_NeighbourPerPair ==
    (kg.last = "get_neighbors" /\ ~kg.neighbors.raised /\ kg.direction = "outgoing") =>
        /\ \A i, j \in 1..Len(kg.neighbors.results) :
              i # j => kg.neighbors.results[i].id # kg.neighbors.results[j].id
        /\ {kg.neighbors.results[i].id : i \in 1..Len(kg.neighbors.results)} =
              {kg.graph.relations[r].target_id : r \in RelationsFrom(kg.entity_id)}

\* C39: after any sequence of add_documents calls, also calls an Embedder
\* failure aborted, the document ids are pairwise distinct and never reused,
\* every id in documents has a content embedding, and every id in documents
\* is in content_with_tags of both its subject tag and its object tag, each
\* of which has a tag embedding.
C39_StoreConsistent ==
    LET st == vstore.store IN
    /\ \A i, j \in 1..Len(vstore.assigned) : i # j => vstore.assigned[i] # vstore.assigned[j]
    /\ DOMAIN st.documents = {vstore.assigned[i] : i \in 1..Len(vstore.assigned)}
    /\ \A id \in DOMAIN st.documents :
          /\ id \in st.content_embeddings
          /\ \A tag \in {st.documents[id].subject, st.documents[id].object} :
                /\ tag \in DOMAIN st.tags
                /\ tag \in st.tag_embeddings
                /\ \E i \in 1..Len(st.tags[tag]) : st.tags[tag][i] = id

\* the part of C39 an aborted call keeps: distinct ids, never reused, each
\* with a content embedding, and every tag with a tag embedding
C39_IdsAndEmbeddings ==
    LET st == vstore.store IN
    /\ \A i, j \in 1..Len(vstore.assigned) : i # j => vstore.assigned[i] # vstore.assigned[j]
    /\ DOMAIN st.documents = {vstore.assigned[i] : i \in 1..Len(vstore.assigned)}
    /\ DOMAIN st.documents = st.content_embeddings
    /\ DOMAIN st.tags = st.tag_embeddings

\* C33: CustomVectorStore.search(query, k, iterations) returns at most k
\* documents, never the same document twice in one call, and never uses as
\* seed in a later iteration a tag that was a seed in an earlier one.
C33_SearchBounded ==
    vstore.pc = "returned" =>
        LET c == vstore.call IN
        /\ Len(c.results) <= c.k
        /\ \A i, j \in 1..Len(c.results) : i # j => c.results[i] # c.results[j]
        /\ \A i, j \in 1..Len(c.seeds) :
              i < j => Range(c.seeds[i]) \cap Range(c.seeds[j]) = {}

\* the part of C33 that holds, and the bound the results do keep for k >= 1
C33_DistinctAndFreshSeeds ==
    vstore.pc = "returned" =>
        LET c == vstore.call IN
        /\ c.k >= 1 => Len(c.results) <= c.k * c.iterations
        /\ \A i, j \in 1..Len(c.results) : i # j => c.results[i] # c.results[j]
        /\ \A i, j \in 1..Len(c.seeds) :
              i < j => Range(c.seeds[i]) \cap Range(c.seeds[j]) = {}


\* the items add_conversation has put into the context buffer so far
InContextOnce ==
    SubSeq(appended, 1, IF pc \in {"ac_written", "ac_indexed"}
                        THEN Len(appended) - 1 ELSE Len(appended))

\* the compactions that ran to their end, and what was summarised by them
Completed == {t \in 1..Len(threads) : threads[t].pc = "done"}
Summarised == UNION {Range(threads[t].seen) : t \in Completed}

\* C34: no appended item is silently dropped from context: whenever no
\* compaction is running, each item ever appended is still in context or was
\* part of the recent-conversation input of a compaction that completed
\* successfully, whatever the interleaving of appends and the worker's steps.
C34_NoItemDropped ==
    Alive = {} =>
        \A i \in 1..Len(InContextOnce) :
            InContextOnce[i] \in Range(context) \cup Summarised


\* C35: whenever add_conversation has returned and no compaction thread is
\* running (the last one succeeded or failed), context.json holds the same
\* summary and the same context items as memory.
C35_FileMatchesMemory ==
    (pc = "idle" /\ Len(appended) >= 1 /\ Alive = {}) =>
        LoadContext(context_file) = [summary |-> summary, context |-> context]


\* the plan line the last step of the write loop was about
WrittenCmd == writer.update_cmd[writer.pos - 1]

\* C36: in a write cycle v_update is only applied to a document whose id
\* starts with the non-empty short id given on that same plan line: a target
\* resolved for an earlier update line is never reused, and an update line
\* without a uuid argument overwrites nothing.
C36_UpdateHitsNamedDocument ==
    (writer.pc \in {"loop", "done"} /\ writer.last = "v_update") =>
        /\ DictGet(WrittenCmd.kwargs, <<"uuid">>) # <<>>
        /\ StartsWith(writer.uuid_to_update, DictGet(WrittenCmd.kwargs, <<"uuid">>))

\* C37: the recent-write ring buffer gains an entry only for a write the
\* vector store reported as successful: when update_document returns False no
\* MemoryUpdateCommand is appended and recent_update.json is not rewritten.
C37_FailedWriteNotRecorded ==
    [][(writer.pc = "loop" /\ writer'.pc = "loop" /\ writer'.pos = writer.pos + 1
          /\ writer'.last = "update_failed")
       => (writer'.recent_update = writer.recent_update
             /\ writer'.recent_file = writer.recent_file)]_vars


\* the result of the call of get_aliased_name that has just returned
Resolved == resolver'.calls[Len(resolver'.calls)].result

\* C38: after any sequence of entity additions, fuzzy resolutions and
\* administrative removals, every value of the alias map is the id of an
\* entity of the entity table, and get_aliased_name returns not-found or the
\* id of an entity that is in the table at that time.
C38_AliasesResolveToEntities ==
    /\ [](\A raw \in DOMAIN resolver.alias_map :
             resolver.alias_map[raw] \in Range(resolver.entities))
    /\ [][(Len(resolver'.calls) = Len(resolver.calls) + 1 /\ Resolved.value = "id")
          => Resolved.id \in Range(resolver'.entities)]_vars


\* the attempts of the call of generate_response, in order
Attempts == SelectSeq(llm.log, LAMBDA x : x.what = "attempt")

\* a sleep after every attempt but the last, and nowhere else
SleepsBetween ==
    \A i \in 1..Len(llm.log) :
        IF i % 2 = 1 THEN llm.log[i].what = "attempt" ELSE llm.log[i].what = "sleep"

RetryContract ==
    /\ Len(Attempts) <= llm.max_retries
    /\ \A i \in 1..Len(Attempts) : Attempts[i].outcome = "ok" => i = Len(Attempts)
    /\ llm.pc = "returned" => Len(Attempts) >= 1 /\ Attempts[Len(Attempts)].outcome = "ok"
    /\ SleepsBetween
    /\ Len(llm.log) > 0 => llm.log[Len(llm.log)].what = "attempt"
    /\ llm.pc = "raised" =>
          /\ Len(Attempts) >= 1
          /\ llm.raised = Attempts[Len(Attempts)].outcome

\* C40: generate_response makes at most max_retries attempts, returns the
\* result of the first successful attempt without further attempts, sleeps
\* between attempts but not after the last one, and when every attempt fails
\* raises the exception of the last attempt, for every max_retries >= 0.
C40_RetryPolicy ==
    llm.pc \in {"returned", "raised"} => RetryContract

\* the policy for max_retries >= 1
C40_RetryPolicyFromOne ==
    (llm.pc \in {"returned", "raised"} /\ llm.max_retries >= 1) => RetryContract

====
